---- MODULE Spec2Model ----
(***************************************************************************)
(* A model of pybird's reply decoders (src/pybird/__init__.py).            *)
(*                                                                         *)
(* A reply is the list data.splitlines().  A raw line is a record giving   *)
(* its lexical shape:                                                      *)
(*   digits  the leading run of decimal digits as a number, NoneNum if the *)
(*           line does not start with a digit                              *)
(*   sep     the character right after the digits: "-", " " or "" (the     *)
(*           line ends there)                                              *)
(*   lead    the raw line starts with white space                          *)
(*   kind    what the rest of the line is: "blank", "table", "summary",    *)
(*           "hop" (a via/dev clause alone), "type", "text"                *)
(*   words   the rest split at single spaces (text lines)                  *)
(*   prefix, hop, peer, iface, source, time, from, best, pref, asn         *)
(*           the pieces of a route summary / via-dev clause                *)
(*   tval    the text after "Type:"                                        *)
(* The regular expressions of the source are predicates and capture        *)
(* functions over these shapes.                                            *)
(***************************************************************************)
EXTENDS Integers, Sequences, FiniteSets, TLC

VARIABLES
    \* _parse_route_data
    lines, short, counter, prev_number, route_summary, prev_prefix, routes,
    alias, pc, exc, result,
    \* PyBird instance field, _parse_configure, check_config / configure
    config_file, cfg_lines, cfg_i, cfg_pc, cfg_ret, cfg_exc, caller, call_pc,
    call_err,
    \* _calculate_datetime
    dt_arg, value, now, dt_pc, dt_ret, dt_exc,
    \* _parse_router_status_line
    rs_line, rs_pc, rs_ret,
    \* _parse_peer_summary
    elements, state, up, ps_pc, ps_ret, ps_exc,
    \* _parse_peer_data
    p_lines, p_i, peer_summary, peers, data_contains_detail, p_pc, p_exc,
    p_ret,
    \* _parse_status
    s_lines, s_i, s_data, s_pc, s_exc, s_ret,
    \* _socket_query
    stream, sent, sq_data, tail, sq_pc, sq_ret, sq_exc,
    \* the public operations that build a query
    q_op, q_table, q_prefix, q_peer, q_full, query, q_pc, q_exc

routeVars ==
    <<lines, short, counter, prev_number, route_summary, prev_prefix, routes,
      alias, pc, exc, result>>
cfgVars ==
    <<config_file, cfg_lines, cfg_i, cfg_pc, cfg_ret, cfg_exc, caller,
      call_pc, call_err>>
dtVars ==
    <<dt_arg, value, now, dt_pc, dt_ret, dt_exc>>
rsVars ==
    <<rs_line, rs_pc, rs_ret>>
psVars ==
    <<elements, state, up, ps_pc, ps_ret, ps_exc>>
peerVars ==
    <<p_lines, p_i, peer_summary, peers, data_contains_detail, p_pc, p_exc,
      p_ret>>
statusVars ==
    <<s_lines, s_i, s_data, s_pc, s_exc, s_ret>>
sockVars ==
    <<stream, sent, sq_data, tail, sq_pc, sq_ret, sq_exc>>
cmdVars ==
    <<q_op, q_table, q_prefix, q_peer, q_full, query, q_pc, q_exc>>
vars == <<routeVars, cfgVars, dtVars, rsVars, psVars, peerVars, statusVars,
         sockVars, cmdVars>>

\* what each part of the program leaves alone
notRoute ==
    <<cfgVars, dtVars, rsVars, psVars, peerVars, statusVars, sockVars, cmdVars>>
notCfg ==
    <<routeVars, dtVars, rsVars, psVars, peerVars, statusVars, sockVars,
      cmdVars>>
notDt ==
    <<routeVars, cfgVars, rsVars, psVars, peerVars, statusVars, sockVars,
      cmdVars>>
notRs ==
    <<routeVars, cfgVars, dtVars, psVars, peerVars, statusVars, sockVars,
      cmdVars>>
notPs ==
    <<routeVars, cfgVars, dtVars, rsVars, peerVars, statusVars, sockVars,
      cmdVars>>
notPeer ==
    <<routeVars, cfgVars, dtVars, rsVars, psVars, statusVars, sockVars,
      cmdVars>>
notStatus ==
    <<routeVars, cfgVars, dtVars, rsVars, psVars, peerVars, sockVars, cmdVars>>
notSock ==
    <<routeVars, cfgVars, dtVars, rsVars, psVars, peerVars, statusVars,
      cmdVars>>
notCmd ==
    <<routeVars, cfgVars, dtVars, rsVars, psVars, peerVars, statusVars,
      sockVars>>

\* Python's None, for text values and for numbers
None == "None"
NoneNum == -1

\* longest reply, in lines, of the route decoder's specifications
MaxLines == 4
\* longest reply, in lines, of the test-shape specification
MaxShapeLines == 4
\* longest reply, in lines, of the configure specification
MaxCfgLines == 3
\* longest reply, in lines, of the peer specification
MaxPeerLines == 4
\* longest free reply, in lines, of the status specification
MaxStatusLines == 4
\* longest free reply, in lines, of the look-ahead specification
MaxLookaheadLines == 3
\* longest reply, in lines, of the specification of all four decoders
MaxDecoderLines == 2

\* ------------------------------------------------------------------------
\* reply-code sets (class attributes)
ignored_field_numbers == {0, 1, 13, 2002, 9001}
\* an error set that leaves out the codes also listed as ignored
error_fields_not_ignored == {19, 8001, 8002, 8003, 9000, 9002}
error_fields == {13, 19, 8001, 8002, 8003, 9000, 9001, 9002}
success_fields == {0, 3, 4, 18, 20}

\* ------------------------------------------------------------------------
\* raw lines

BlankLine ==
    [digits |-> NoneNum, sep |-> "", lead |-> FALSE, kind |-> "blank",
     words |-> <<>>, prefix |-> None, hop |-> None, peer |-> None,
     iface |-> None, source |-> None, time |-> None, from |-> None,
     best |-> None, pref |-> None, asn |-> None, tval |-> None]

\* "NNNN-<rest>" / "NNNN <rest>"
Coded(n, s, rest) == [rest EXCEPT !.digits = n, !.sep = s, !.lead = FALSE]

SummaryLine(p, h, pr, i, s, t, f, b, pf, a) ==
    [BlankLine EXCEPT !.kind = "summary", !.prefix = p, !.hop = h, !.peer = pr,
                      !.iface = i, !.source = s, !.time = t, !.from = f,
                      !.best = b, !.pref = pf, !.asn = a]

TextLine(w) == [BlankLine EXCEPT !.kind = "text", !.words = w]

\* the four-digit spelling of a reply code
CodeText(n) ==
    CASE n = 0 -> "0000"
      [] n = 1 -> "0001"
      [] OTHER -> "NNNN"

\* the characters of \w: an interface name is either all word characters or
\* has a word-character head followed by other characters ("bond0.895")
WordHead(i) ==
    CASE i = "bond0.895" -> "bond0"
      [] OTHER -> i
WordOnly(i) == WordHead(i) = i

\* _extract_field_number: ^(\d+)[ -] ; on a match the number and the rest,
\* stripped; otherwise None and the stripped line (digits included)
extract_field_number(raw) ==
    IF raw.digits # NoneNum /\ raw.sep \in {" ", "-"}
    THEN [number |-> raw.digits,
          line |-> [raw EXCEPT !.digits = NoneNum, !.sep = "", !.lead = FALSE]]
    ELSE IF raw.digits # NoneNum
         THEN [number |-> NoneNum,
               line |-> TextLine(<<CodeText(raw.digits)>> \o raw.words)]
         ELSE [number |-> NoneNum, line |-> [raw EXCEPT !.lead = FALSE]]

\* ------------------------------------------------------------------------
\* Python dicts: functions from key strings

EmptyDict == [k \in {} |-> None]
DictLen(d) == Cardinality(DOMAIN d)
\* d.update(e)
DictUpdate(d, e) ==
    [k \in (DOMAIN d) \cup (DOMAIN e) |-> IF k \in DOMAIN e THEN e[k] ELSE d[k]]
DictSet(d, key, v) ==
    [k \in (DOMAIN d) \cup {key} |-> IF k = key THEN v ELSE d[k]]

\* a value that is None or a text; a text is the sequence of its words
PyNone == [none |-> TRUE, text |-> <<>>]
PyStr(w) == [none |-> FALSE, text |-> w]
\* "if err:" - None and the empty text are false
Truthy(v) == ~v.none /\ v.text # <<>>

\* an outcome of a parsing function: a value, or an exception
Ok(v) == [raised |-> None, value |-> v]
Raise(e) == [raised |-> e, value |-> EmptyDict]

\* ------------------------------------------------------------------------
\* texts that are looked into: a text is the tuple of its characters

Min(a, b) == IF a <= b THEN a ELSE b

\* s[a:b]
Slice(s, a, b) == SubSeq(s, a + 1, Min(b, Len(s)))

\* s.split(ch)
RECURSIVE Split(_, _)
Split(s, ch) ==
    IF \A i \in DOMAIN s : s[i] # ch
    THEN <<s>>
    ELSE LET k == CHOOSE i \in DOMAIN s :
                      s[i] = ch /\ \A j \in 1..(i - 1) : s[j] # ch
         IN  <<SubSeq(s, 1, k - 1)>> \o Split(SubSeq(s, k + 1, Len(s)), ch)

\* s.strip() of blanks
RECURSIVE Strip(_)
Strip(s) ==
    IF s # <<>> /\ s[1] = " " THEN Strip(Tail(s))
    ELSE IF s # <<>> /\ s[Len(s)] = " " THEN Strip(SubSeq(s, 1, Len(s) - 1))
    ELSE s

\* s.lower(): the lower-case letter of each capital
LowerCase ==
    [A |-> "a", B |-> "b", C |-> "c", D |-> "d", E |-> "e", F |-> "f",
     G |-> "g", H |-> "h", I |-> "i", J |-> "j", K |-> "k", L |-> "l",
     M |-> "m", N |-> "n", O |-> "o", P |-> "p", Q |-> "q", R |-> "r",
     S |-> "s", T |-> "t", U |-> "u", V |-> "v", W |-> "w", X |-> "x",
     Y |-> "y", Z |-> "z"]
Lower(s) ==
    [i \in DOMAIN s |->
        IF s[i] \in DOMAIN LowerCase THEN LowerCase[s[i]] ELSE s[i]]

DigitChars == <<"0", "1", "2", "3", "4", "5", "6", "7", "8", "9">>
DigitVals ==
    ("0" :> 0) @@ ("1" :> 1) @@ ("2" :> 2) @@ ("3" :> 3) @@ ("4" :> 4)
    @@ ("5" :> 5) @@ ("6" :> 6) @@ ("7" :> 7) @@ ("8" :> 8) @@ ("9" :> 9)
IsDigit(ch) == ch \in DOMAIN DigitVals
DigitVal(ch) == DigitVals[ch]
AllDigits(s) == s # <<>> /\ \A i \in DOMAIN s : IsDigit(s[i])

RECURSIVE Decimal(_)
Decimal(s) ==
    IF s = <<>> THEN 0
    ELSE 10 * Decimal(SubSeq(s, 1, Len(s) - 1)) + DigitVal(s[Len(s)])

\* the decimal spelling of a natural number
RECURSIVE DecChars(_)
DecChars(n) ==
    IF n < 10 THEN <<DigitChars[n + 1]>>
    ELSE DecChars(n \div 10) \o <<DigitChars[(n % 10) + 1]>>

\* int(text): blanks around the digits and a sign before them are accepted
int(s) ==
    LET t == Strip(s)
        signed == t # <<>> /\ t[1] \in {"+", "-"}
        u == IF signed THEN Tail(t) ELSE t
    IN  IF AllDigits(u)
        THEN Ok(IF signed /\ t[1] = "-" THEN 0 - Decimal(u) ELSE Decimal(u))
        ELSE Raise("ValueError")

\* ------------------------------------------------------------------------
\* datetime

IsLeap(y) == (y % 4 = 0 /\ y % 100 # 0) \/ y % 400 = 0
DaysInMonth(y, m) ==
    CASE m \in {4, 6, 9, 11} -> 30
      [] m = 2 -> IF IsLeap(y) THEN 29 ELSE 28
      [] OTHER -> 31

\* datetime(year, month, day, hour, minute, second): ValueError when a field
\* is out of range
datetime(y, mo, d, h, mi, s) ==
    IF /\ y \in 1..9999
       /\ mo \in 1..12
       /\ d >= 1
       /\ d <= DaysInMonth(y, mo)
       /\ h \in 0..23
       /\ mi \in 0..59
       /\ s \in 0..59
    THEN Ok([year |-> y, month |-> mo, day |-> d,
             hour |-> h, minute |-> mi, second |-> s])
    ELSE Raise("ValueError")

\* the same calendar day
SameDay(dt) == dt

\* dt - timedelta(days=1)
DayBefore(dt) ==
    IF dt.day > 1 THEN [dt EXCEPT !.day = dt.day - 1]
    ELSE IF dt.month > 1
    THEN [dt EXCEPT !.month = dt.month - 1,
                    !.day = DaysInMonth(dt.year, dt.month - 1)]
    ELSE [dt EXCEPT !.year = dt.year - 1, !.month = 12, !.day = 31]

\* a number as two digits
D2(n) == <<DigitChars[(n \div 10) + 1], DigitChars[(n % 10) + 1]>>

\* dt.strftime('%m/%d/%Y %H:%M:%S')
strftime(dt) ==
    D2(dt.month) \o <<"/">> \o D2(dt.day) \o <<"/">> \o DecChars(dt.year)
    \o <<" ">> \o D2(dt.hour) \o <<":">> \o D2(dt.minute) \o <<":">>
    \o D2(dt.second)

\* a strptime field of one or two digits with a largest value
Field(p, hi) == Len(p) \in {1, 2} /\ AllDigits(p) /\ Decimal(p) <= hi

\* datetime.strptime(v, "%H:%M")
strptime_HM(v) ==
    LET p == Split(v, ":")
    IN  IF Len(p) = 2 /\ Field(p[1], 23) /\ Field(p[2], 59)
        THEN datetime(1900, 1, 1, Decimal(p[1]), Decimal(p[2]), 0)
        ELSE Raise("ValueError")

\* datetime.strptime(v, "%H:%M:%S")
strptime_HMS(v) ==
    LET p == Split(v, ":")
    IN  IF Len(p) = 3 /\ Field(p[1], 23) /\ Field(p[2], 59) /\ Field(p[3], 61)
        THEN datetime(1900, 1, 1, Decimal(p[1]), Decimal(p[2]), Decimal(p[3]))
        ELSE Raise("ValueError")

MonthNames ==
    <<<<"j", "a", "n">>, <<"f", "e", "b">>, <<"m", "a", "r">>,
      <<"a", "p", "r">>, <<"m", "a", "y">>, <<"j", "u", "n">>,
      <<"j", "u", "l">>, <<"a", "u", "g">>, <<"s", "e", "p">>,
      <<"o", "c", "t">>, <<"n", "o", "v">>, <<"d", "e", "c">>>>

\* datetime.strptime(v, "%b%d"): a month name in any case, then the day as
\* one or two digits or a blank and a digit; the year is 1900
strptime_bd(v) ==
    LET name == Lower(Slice(v, 0, 3))
        day == Slice(v, 3, Len(v))
        digits == IF day # <<>> /\ day[1] = " " /\ Len(day) = 2
                  THEN Tail(day) ELSE day
    IN  IF /\ \E m \in DOMAIN MonthNames : MonthNames[m] = name
           /\ Field(digits, 31)
        THEN datetime(1900,
                      CHOOSE m \in DOMAIN MonthNames : MonthNames[m] = name,
                      Decimal(digits), 0, 0, 0)
        ELSE Raise("ValueError")

\* datetime.strptime(v, "%Y-%m-%d %H:%M:%S")
strptime_Ymd(v) ==
    LET halves == Split(v, " ")
        d == Split(halves[1], "-")
        t == IF Len(halves) = 2 THEN Split(halves[2], ":") ELSE <<>>
    IN  IF /\ Len(halves) = 2 /\ Len(d) = 3 /\ Len(t) = 3
           /\ Len(d[1]) = 4 /\ AllDigits(d[1])
           /\ Field(d[2], 12) /\ Field(d[3], 31)
           /\ Field(t[1], 23) /\ Field(t[2], 59) /\ Field(t[3], 61)
        THEN datetime(Decimal(d[1]), Decimal(d[2]), Decimal(d[3]),
                      Decimal(t[1]), Decimal(t[2]), Decimal(t[3]))
        ELSE Raise("ValueError")

\* a fallback that reads the legacy date as month-day-year
strptime_mdY(v) ==
    LET halves == Split(v, " ")
        d == Split(halves[1], "-")
        t == IF Len(halves) = 2 THEN Split(halves[2], ":") ELSE <<>>
    IN  IF /\ Len(halves) = 2 /\ Len(d) = 3 /\ Len(t) = 3
           /\ Len(d[3]) = 4 /\ AllDigits(d[3])
           /\ Field(d[1], 12) /\ Field(d[2], 31)
           /\ Field(t[1], 23) /\ Field(t[2], 59) /\ Field(t[3], 61)
        THEN datetime(Decimal(d[3]), Decimal(d[1]), Decimal(d[2]),
                      Decimal(t[1]), Decimal(t[2]), Decimal(t[3]))
        ELSE Raise("ValueError")
\* datetime.strptime(v, "%d-%m-%Y %H:%M:%S")
strptime_dmY(v) ==
    LET halves == Split(v, " ")
        d == Split(halves[1], "-")
        t == IF Len(halves) = 2 THEN Split(halves[2], ":") ELSE <<>>
    IN  IF /\ Len(halves) = 2 /\ Len(d) = 3 /\ Len(t) = 3
           /\ Len(d[3]) = 4 /\ AllDigits(d[3])
           /\ Field(d[1], 31) /\ Field(d[2], 12)
           /\ Field(t[1], 23) /\ Field(t[2], 59) /\ Field(t[3], 61)
        THEN datetime(Decimal(d[3]), Decimal(d[2]), Decimal(d[1]),
                      Decimal(t[1]), Decimal(t[2]), Decimal(t[3]))
        ELSE Raise("ValueError")

\* ------------------------------------------------------------------------
\* the route-summary regular expressions, over a cleaned line

\* bird2route  ([\sa-f0-9\.:\/]+)?(?:unicast|blackhole)\s+\[
bird2route_match(line) ==
    line.kind = "summary" /\ line.hop \in {"unicast", "blackhole"}

\* bird1route
\*   (?:[a-f0-9\.:\/]+)?(\s+)?(?:via\s([^\s]+)\s+on\s+|\s+dev\s+)([\w\s]+)\[
\* "dev" needs white space before it, which only a prefix leaves in a cleaned
\* line; between the clause and "[" only word characters and white space
bird1route_match(line) ==
    /\ line.kind = "summary"
    /\ \/ line.hop = "via"
       \/ line.hop = "dev" /\ line.prefix # None
    /\ WordOnly(line.iface)

\* if not route["peer"]: route["peer"] = route.pop("peer2") else: del peer2
\* and best normalised to a boolean
summary_post(peer, peer2, best, rest) ==
    DictUpdate(rest, [peer |-> IF peer = None THEN peer2 ELSE peer,
                      best |-> (best # None)])

\* _parse_route_summary_bird1: rs matches every line bird1route matches; the
\* groups prefix, peer, interface, source, time, peer2, best, preference, asn
parse_route_summary_bird1(line) ==
    IF ~(line.kind = "summary" /\ line.source # None)
    THEN Raise("ValueError")
    ELSE Ok(summary_post(
             IF line.hop = "via" THEN line.peer ELSE None, line.from, line.best,
             [prefix |-> line.prefix,
              interface |-> IF line.hop \in {"via", "dev"} THEN line.iface ELSE None,
              source |-> line.source, time |-> line.time,
              preference |-> line.pref, asn |-> line.asn]))

\* rs1  (?:^\s+via\s+(?P<peer>[a-f0-9\.:\/]+)\s+on\s+|^\s+dev\s+)(?P<interface>[\w]+)
\* matched at the start of the RAW following line
rs1_match(raw) ==
    /\ raw.digits = NoneNum
    /\ raw.lead
    /\ raw.kind \in {"hop", "summary"}
    /\ raw.prefix = None
    /\ raw.hop \in {"via", "dev"}

\* _parse_route_summary_bird2, line = [cleaned summary line, raw next line]
parse_route_summary_bird2(line0, line1) ==
    IF ~(line0.kind = "summary" /\ line0.hop \in {"unicast", "blackhole"})
    THEN Raise("ValueError")
    ELSE IF ~rs1_match(line1)
    THEN Raise("ValueError")
    ELSE Ok(summary_post(
             IF line1.hop = "via" THEN line1.peer ELSE None, line0.from, line0.best,
             [prefix |-> line0.prefix, source |-> line0.source,
              time |-> line0.time, preference |-> line0.pref, asn |-> line0.asn,
              interface |-> WordHead(line1.iface)]))

\* _parse_route_type  Type:\s+(?P<type>[\w\s]+)
parse_route_type(line) ==
    IF line.kind = "type" THEN Ok([type |-> line.tval]) ELSE Raise("ValueError")

\* ------------------------------------------------------------------------
\* _parse_route_data: one action per iteration of "for line in lines"

\* the line of this iteration (Python index counter + 1) and its field number
c == counter + 1
raw == lines[c + 1]
number ==
    IF extract_field_number(raw).number = NoneNum
    THEN prev_number
    ELSE extract_field_number(raw).number
line == extract_field_number(raw).line

InLoop == pc = "loop" /\ c < Len(lines)

\* routes holds references: the entries listed in alias are the very dict
\* that route_summary names, so a change of that dict in place shows in them
Mutate(rts, al, d) == [i \in DOMAIN rts |-> IF i \in al THEN d ELSE rts[i]]

\* an exception leaves the function; nothing is returned
Fail(e) ==
    /\ pc' = "raised"
    /\ exc' = e
    /\ counter' = c
    /\ UNCHANGED <<lines, prev_number, route_summary, prev_prefix, routes,
                   alias, result>>

\* if len(route_summary) > 0: routes.append(route_summary); route_summary = {}
Sealing == DictLen(route_summary) > 0
SealedRoutes == IF Sealing THEN Append(routes, route_summary) ELSE routes
SealedSummary == IF Sealing THEN EmptyDict ELSE route_summary
SealedAlias == IF Sealing THEN {} ELSE alias

\* if bird2route.match(line): ..._bird2([line, lines[counter+1]])
Bird2Outcome ==
    IF bird2route_match(line)
    THEN IF c + 1 < Len(lines)
         THEN parse_route_summary_bird2(line, lines[c + 2])
         ELSE Raise("IndexError")
    ELSE Ok(SealedSummary)

\* if bird1route.match(line): ..._bird1(line)
Bird1Outcome ==
    IF bird1route_match(line)
    THEN parse_route_summary_bird1(line)
    ELSE Bird2Outcome

\* if "prefix" in route_summary: fill a None prefix from prev_prefix
Backfill(d) ==
    IF "prefix" \in DOMAIN d /\ d["prefix"] = None
    THEN DictSet(d, "prefix", prev_prefix)
    ELSE d

\* number == 1007
StepSummary ==
    /\ InLoop
    /\ number = 1007
    /\ IF line.kind = "blank" \/ line.kind = "table"
       THEN /\ routes' = SealedRoutes
            /\ route_summary' = SealedSummary
            /\ alias' = SealedAlias
            /\ counter' = c
            /\ prev_number' = number
            /\ UNCHANGED <<lines, prev_prefix, pc, exc, result>>
       ELSE IF Bird2Outcome.raised # None
       THEN Fail(Bird2Outcome.raised)
       ELSE IF Bird1Outcome.raised # None
       THEN Fail(Bird1Outcome.raised)
       ELSE LET rebound == bird2route_match(line) \/ bird1route_match(line)
                al == IF rebound THEN {} ELSE SealedAlias
                d == Backfill(Bird1Outcome.value)
            IN  /\ route_summary' = d
                /\ routes' = Mutate(SealedRoutes, al, d)
                /\ alias' = al
                /\ prev_prefix' =
                      IF "prefix" \in DOMAIN d /\ Bird1Outcome.value["prefix"] # None
                      THEN Bird1Outcome.value["prefix"]
                      ELSE prev_prefix
                /\ counter' = c
                /\ prev_number' = number
                /\ UNCHANGED <<lines, pc, exc, result>>
    /\ UNCHANGED <<short, notRoute>>

\* number == 1008: route_summary.update(self._parse_route_type(line))
StepType ==
    /\ InLoop
    /\ number = 1008
    /\ IF parse_route_type(line).raised # None
       THEN Fail(parse_route_type(line).raised)
       ELSE LET d == DictUpdate(route_summary, parse_route_type(line).value)
            IN  /\ route_summary' = d
                /\ routes' = Mutate(routes, alias, d)
                /\ counter' = c
                /\ prev_number' = number
                /\ UNCHANGED <<lines, prev_prefix, alias, pc, exc, result>>
    /\ UNCHANGED <<short, notRoute>>

\* number == 0: routes.append(route_summary); the loop goes on
StepEnd ==
    /\ InLoop
    /\ number = 0
    /\ routes' = Append(routes, route_summary)
    /\ alias' = alias \cup {Len(routes) + 1}
    /\ counter' = c
    /\ prev_number' = number
    /\ UNCHANGED <<lines, route_summary, prev_prefix, pc, exc, result>>
    /\ UNCHANGED <<short, notRoute>>

\* a decoder that keeps the accumulated records on code 8001
NotInTableKeep(rts) == rts

\* what the decoder returns on code 8001
NotInTable(rts) == <<>>

\* number == 8001: return []
StepNotFound ==
    /\ InLoop
    /\ number = 8001
    /\ pc' = "returned"
    /\ result' = NotInTable(routes)
    /\ counter' = c
    /\ prev_number' = number
    /\ UNCHANGED <<lines, route_summary, prev_prefix, routes, alias, exc>>
    /\ UNCHANGED <<short, notRoute>>

\* any other number; a 1012 line is skipped when short
StepOther ==
    /\ InLoop
    /\ number \notin {1007, 1008, 0, 8001}
    /\ (number = 1012) => short
    /\ counter' = c
    /\ prev_number' = number
    /\ UNCHANGED <<lines, route_summary, prev_prefix, routes, alias, pc, exc, result>>
    /\ UNCHANGED <<short, notRoute>>

\* _parse_route_detail: ^(\w+)\.(\w+)(?:\:[\s]+(.+)?) on the cleaned line; a
\* line that does not match gives match = None, and match.groupdict() raises
\* AttributeError.  The values of community and ext_community are rewritten.
DetailValue(attribute, text) ==
    CASE attribute = "community" /\ text = "(8954,620)" -> "8954:620"
      [] attribute = "ext_community" /\ text = "(rt, 1, 199524)" -> "rt:1:199524"
      [] OTHER -> text
parse_route_detail(l) ==
    IF l.kind = "detail"
    THEN Ok([proto |-> l.words[1], atribute |-> l.words[2],
             value |-> DetailValue(l.words[2], l.words[3])])
    ELSE Raise("AttributeError")

\* route_summary[data["proto"]][data["atribute"]] = data["value"], after
\* route_summary[data["proto"]] = {} if the proto is not in route_summary
StoredDetail(d, data) ==
    IF data.proto \in DOMAIN d
    THEN DictSet(d, data.proto, DictSet(d[data.proto], data.atribute, data.value))
    ELSE DictSet(d, data.proto, DictSet(EmptyDict, data.atribute, data.value))

\* number == 1012 and not short
StepDetail ==
    /\ InLoop
    /\ number = 1012
    /\ ~short
    /\ IF DictLen(route_summary) = 0
       THEN /\ counter' = c
            /\ prev_number' = number
            /\ UNCHANGED <<lines, route_summary, prev_prefix, routes, alias,
                           pc, exc, result>>
       ELSE IF parse_route_detail(line).raised # None
       THEN Fail(parse_route_detail(line).raised)
       ELSE \E d \in {StoredDetail(route_summary, parse_route_detail(line).value)} :
                /\ route_summary' = d
                /\ routes' = Mutate(routes, alias, d)
                /\ counter' = c
                /\ prev_number' = number
                /\ UNCHANGED <<lines, prev_prefix, alias, pc, exc, result>>
    /\ UNCHANGED <<short, notRoute>>

\* the lines are exhausted: return routes
Return ==
    /\ pc = "loop"
    /\ c >= Len(lines)
    /\ pc' = "returned"
    /\ result' = routes
    /\ UNCHANGED <<lines, counter, prev_number, route_summary, prev_prefix,
                   routes, alias, exc>>
    /\ UNCHANGED <<short, notRoute>>

NextRoute ==
    \/ StepSummary
    \/ StepType
    \/ StepEnd
    \/ StepNotFound
    \/ StepOther
    \/ Return

\* ------------------------------------------------------------------------
\* reply lines

\* 0001 BIRD 1.3.3 ready.
LBanner == Coded(1, " ", TextLine(<<"BIRD", "1.3.3", "ready.">>))
\* 1007-2a02:898::/32      via 2001:7f8:1::a500:8954:1 on eth1 [PS2 12:46] * (100) [AS8283i]
LViaPrefix ==
    Coded(1007, "-", SummaryLine("2a02:898::/32", "via", "2001:7f8:1::a500:8954:1",
                                 "eth1", "PS2", "12:46", None, "*", "100", "8283"))
\* 1007-154.0.154.0/23     unreachable [DIGITALOCEAN7 2017-01-13 from 5.101.110.2] * (100/-) [AS36909i]
LUnreachPrefix ==
    Coded(1007, "-", SummaryLine("154.0.154.0/23", "unreachable", None, None,
                                 "DIGITALOCEAN7", "2017-01-13", "5.101.110.2",
                                 "*", "100/-", "36909"))
\* 1007-                   unreachable [HIVANE 2017-01-11 from 193.17.192.135] (100/-) [AS47583i]
LUnreach ==
    Coded(1007, "-", SummaryLine(None, "unreachable", None, None, "HIVANE",
                                 "2017-01-11", "193.17.192.135", None, "100/-", "47583"))
\* 1007-                   via 206.41.110.21 on bond0.895 [transit_as53264_nchc 2016-11-22] (100) [AS29713i]
LViaDotted ==
    Coded(1007, "-", SummaryLine(None, "via", "206.41.110.21", "bond0.895",
                                 "transit_as53264_nchc", "2016-11-22", None, None,
                                 "100", "29713"))
\* 1007-10.255.30.0/24     blackhole [static1 2017-01-14] * (200)
LBlackhole ==
    Coded(1007, "-", SummaryLine("10.255.30.0/24", "blackhole", None, None,
                                 "static1", "2017-01-14", None, "*", "200", None))
\* 1007-2001:db8:123::/64  dev eth0 [direct1 10:14:07] * (240)
LDevPrefix ==
    Coded(1007, "-", SummaryLine("2001:db8:123::/64", "dev", None, "eth0",
                                 "direct1", "10:14:07", None, "*", "240", None))
\* 1007-                   via 2001:db8:123::10 on eth0 [rs1_ipv6 10:14:10] (100) [AS65010i]
LVia ==
    Coded(1007, "-", SummaryLine(None, "via", "2001:db8:123::10", "eth0",
                                 "rs1_ipv6", "10:14:10", None, None, "100", "65010"))
\* 1007-10.0.0.0/24          unicast [rs1_ipv4 10:03:04.485] * (100) [AS65010i]
LUnicastPrefix ==
    Coded(1007, "-", SummaryLine("10.0.0.0/24", "unicast", None, None, "rs1_ipv4",
                                 "10:03:04.485", None, "*", "100", "65010"))
\* 1007-                     unicast [rs2_ipv4 10:03:04.436] (100) [AS65010i]
LUnicast ==
    Coded(1007, "-", SummaryLine(None, "unicast", None, None, "rs2_ipv4",
                                 "10:03:04.436", None, None, "100", "65010"))
\* <tab>via 10.123.123.10 on eth0
LHop ==
    [BlankLine EXCEPT !.lead = TRUE, !.kind = "hop", !.hop = "via",
                      !.peer = "10.123.123.10", !.iface = "eth0"]
\* 1008-<tab>Type: BGP unicast univ
LType == Coded(1008, "-", [BlankLine EXCEPT !.kind = "type", !.tval = "BGP unicast univ"])
\* 0000<space>
LEnd == Coded(0, " ", BlankLine)
\* 0000 with nothing after it, as _remote_query appends it
LBareEnd == [BlankLine EXCEPT !.digits = 0]
\* 8001 Network not in table
LNotFound == Coded(8001, " ", TextLine(<<"Network", "not", "in", "table">>))

\* "<proto>.<attribute>: <value>" after the reply code, if there is one
DetailLineOf(proto, attribute, text) ==
    [BlankLine EXCEPT !.kind = "detail", !.words = <<proto, attribute, text>>]
\* 1012-<tab>BGP.origin: IGP
LOrigin == Coded(1012, "-", DetailLineOf("BGP", "origin", "IGP"))
\* <tab>BGP.as_path: 8954 8283
LAsPath == [DetailLineOf("BGP", "as_path", "8954 8283") EXCEPT !.lead = TRUE]
\* <tab>BGP.community: (8954,620)
LCommunity == [DetailLineOf("BGP", "community", "(8954,620)") EXCEPT !.lead = TRUE]
\* <tab>OSPF.metric1: 10
LMetric == [DetailLineOf("OSPF", "metric1", "10") EXCEPT !.lead = TRUE]
\* <tab>BGP.as_path:<space> , the empty path of a route that starts here
LEmptyPath == [TextLine(<<"BGP.as_path:">>) EXCEPT !.lead = TRUE]

\* the lines of the replies of Spec
RouteLines ==
    {LBanner, LViaPrefix, LVia, LUnicastPrefix, LUnicast, LHop, LType, LEnd,
     LBareEnd, LNotFound, BlankLine}

\* the summary lines of tests/test_regex.py, as code-1007 lines
TestLines ==
    {LViaPrefix, LUnreachPrefix, LUnreach, LViaDotted, LBlackhole, LDevPrefix, LVia}

\* 1007-garbage : a code-1007 line that is no route summary of either dialect
LMalformed == Coded(1007, "-", TextLine(<<"garbage">>))

\* the lines of the replies of SpecShapes
ShapeLines == TestLines \cup {LBanner, LType, LEnd, LNotFound, LMalformed}

\* ------------------------------------------------------------------------
\* the timestamp texts and clock readings of SpecDatetime
\* 2012-01-10 10:24:37
T_IsoDateTime == <<"2", "0", "1", "2", "-", "0", "1", "-", "1", "0", " ", "1", "0", ":", "2", "4", ":", "3", "7">>
\* 2012-01-10 10:24:37.123
T_IsoFraction == <<"2", "0", "1", "2", "-", "0", "1", "-", "1", "0", " ", "1", "0", ":", "2", "4", ":", "3", "7", ".", "1", "2", "3">>
\* 2012-01-10
T_IsoDate == <<"2", "0", "1", "2", "-", "0", "1", "-", "1", "0">>
\* 10-01-2012 10:24:37
T_Legacy == <<"1", "0", "-", "0", "1", "-", "2", "0", "1", "2", " ", "1", "0", ":", "2", "4", ":", "3", "7">>
\* 03-01-2012 12:46:40
T_LegacyReboot == <<"0", "3", "-", "0", "1", "-", "2", "0", "1", "2", " ", "1", "2", ":", "4", "6", ":", "4", "0">>
\* 13:30
T_HourMinute == <<"1", "3", ":", "3", "0">>
\* 12:00
T_Noon == <<"1", "2", ":", "0", "0">>
\* 10:03:04
T_Seconds == <<"1", "0", ":", "0", "3", ":", "0", "4">>
\* 10:03:04.485
T_Fraction == <<"1", "0", ":", "0", "3", ":", "0", "4", ".", "4", "8", "5">>
\* 12:00:30
T_NoonSeconds == <<"1", "2", ":", "0", "0", ":", "3", "0">>
\* Jun13
T_Jun13 == <<"J", "u", "n", "1", "3">>
\* Jun14
T_Jun14 == <<"J", "u", "n", "1", "4">>
\* Dec31
T_Dec31 == <<"D", "e", "c", "3", "1">>
\* Jan01
T_Jan01 == <<"J", "a", "n", "0", "1">>
\* Feb29
T_Feb29 == <<"F", "e", "b", "2", "9">>
\* 2012
T_Year == <<"2", "0", "1", "2">>
\* never
T_Word == <<"n", "e", "v", "e", "r">>
\* foo.bar
T_Dotted == <<"f", "o", "o", ".", "b", "a", "r">>
\* 2012.5
T_YearDot == <<"2", "0", "1", "2", ".", "5">>
\* 195.69.146.34
T_Address == <<"1", "9", "5", ".", "6", "9", ".", "1", "4", "6", ".", "3", "4">>

RawValues ==
    {T_IsoDateTime, T_IsoFraction, T_IsoDate, T_Legacy,
     T_LegacyReboot, T_HourMinute, T_Noon, T_Seconds,
     T_Fraction, T_NoonSeconds, T_Jun13, T_Jun14,
     T_Dec31, T_Jan01, T_Feb29, T_Year, T_Word,
     T_Dotted, T_YearDot, T_Address}

Clock(y, mo, d, h, mi, s) ==
    [year |-> y, month |-> mo, day |-> d, hour |-> h, minute |-> mi,
     second |-> s]

\* datetime.now(): midday, the first minute of a year, the morning after a
\* leap day, the last second of a day
Nows ==
    {Clock(2012, 6, 13, 12, 0, 10), Clock(2013, 1, 1, 0, 0, 0),
     Clock(2012, 3, 1, 9, 30, 0), Clock(2012, 12, 31, 23, 59, 59)}

\* datetime.now() while a peer reply is decoded
PeerNows == {Clock(2012, 6, 13, 12, 0, 10), Clock(2013, 1, 1, 0, 0, 0)}

NoDate == Clock(0, 0, 0, 0, 0, 0)
NoError == [type |-> None, carries |-> <<>>]

\* no timestamp is being resolved
DtIdle ==
    /\ dt_arg = <<>>
    /\ value = <<>>
    /\ now = NoDate
    /\ dt_pc = "idle"
    /\ dt_ret = <<>>
    /\ dt_exc = NoError
    /\ rs_line = BlankLine
    /\ rs_pc = "idle"
    /\ rs_ret = NoDate

SeqsUpTo(S, n) == UNION {[1..k -> S] : k \in 0..n}

\* peer_summary = None
NoSummary == EmptyDict

\* no peer reply is being decoded; get_peer_status, the only caller, asks
\* for detail
PeerIdle ==
    /\ p_lines = <<>>
    /\ p_i = 0
    /\ peer_summary = NoSummary
    /\ peers = <<>>
    /\ data_contains_detail = TRUE
    /\ p_pc = "idle"
    /\ p_exc = None
    /\ p_ret = <<>>

\* no peer summary line is being parsed
PsIdle ==
    /\ elements = <<>>
    /\ state = PyNone
    /\ up = None
    /\ ps_pc = "idle"
    /\ ps_ret = NoSummary
    /\ ps_exc = None

\* no status reply is being decoded
StatusIdle ==
    /\ s_lines = <<>>
    /\ s_i = 0
    /\ s_data = EmptyDict
    /\ s_pc = "idle"
    /\ s_exc = None
    /\ s_ret = EmptyDict

\* no query is on the control socket
SockIdle ==
    /\ stream = <<>>
    /\ sent = 0
    /\ sq_data = <<>>
    /\ tail = <<>>
    /\ sq_pc = "idle"
    /\ sq_ret = <<>>
    /\ sq_exc = None

\* no public operation is building a query
CmdIdle ==
    /\ q_op = "idle"
    /\ q_table = PyNone
    /\ q_prefix = PyNone
    /\ q_peer = PyNone
    /\ q_full = FALSE
    /\ query = <<>>
    /\ q_pc = "idle"
    /\ q_exc = None

\* no configure call is under way
CfgIdle ==
    /\ config_file = None
    /\ cfg_lines = <<>>
    /\ cfg_i = 0
    /\ cfg_pc = "idle"
    /\ cfg_ret = PyNone
    /\ cfg_exc = None
    /\ caller = None
    /\ call_pc = "idle"
    /\ call_err = PyNone

\* the locals of _parse_route_data before its loop; short is its parameter,
\* which the public operations leave at its default True
RouteStart ==
    /\ counter = -1
    /\ prev_number = 1007
    /\ route_summary = EmptyDict
    /\ prev_prefix = None
    /\ routes = <<>>
    /\ alias = {}
    /\ pc = "loop"
    /\ exc = None
    /\ result = <<>>

Init ==
    /\ lines \in SeqsUpTo(RouteLines, MaxLines)
    /\ RouteStart
    /\ short = TRUE
    /\ CfgIdle
    /\ DtIdle
    /\ PsIdle
    /\ PeerIdle
    /\ StatusIdle
    /\ SockIdle
    /\ CmdIdle

Next == NextRoute

Spec == Init /\ [][Next]_vars

\* _parse_route_data(data, short=False): the replies of "show route all"
\* with attribute lines
RouteDetailLines ==
    {LBanner, LViaPrefix, LUnicastPrefix, LHop, LType, LOrigin, LAsPath,
     LCommunity, LMetric, LEmptyPath, LEnd, LNotFound}

MaxRouteDetailLines == 4

InitRouteDetail ==
    /\ lines \in SeqsUpTo(RouteDetailLines, MaxRouteDetailLines)
    /\ RouteStart
    /\ short = FALSE
    /\ CfgIdle
    /\ DtIdle
    /\ PsIdle
    /\ PeerIdle
    /\ StatusIdle
    /\ SockIdle
    /\ CmdIdle

NextRouteDetail == NextRoute \/ StepDetail

SpecRouteDetail == InitRouteDetail /\ [][NextRouteDetail]_vars

InitShapes ==
    /\ lines \in SeqsUpTo(ShapeLines, MaxShapeLines)
    /\ RouteStart
    /\ short = TRUE
    /\ CfgIdle
    /\ DtIdle
    /\ PsIdle
    /\ PeerIdle
    /\ StatusIdle
    /\ SockIdle
    /\ CmdIdle

SpecShapes == InitShapes /\ [][Next]_vars

\* ------------------------------------------------------------------------
\* _parse_configure, one action per iteration of "for line in data.splitlines()",
\* and its callers check_config and configure

\* the line of this iteration and its field number
cfg_raw == cfg_lines[cfg_i + 1]
fieldno == extract_field_number(cfg_raw).number
cfg_line == extract_field_number(cfg_raw).line

CfgInLoop == cfg_pc = "scan" /\ cfg_i < Len(cfg_lines)

\* a decoder that takes the path of every code-2 line
AnyConfigFile == TRUE
\* "if not self.config_file"
NoConfigFile == config_file = None \/ config_file = ""

\* line.split(" "): an empty text splits into one empty word
SplitSpace(l) == IF l.words = <<>> THEN <<"">> ELSE l.words

\* a decoder that takes the last word of the line as the path
ConfigPathLast(split) == split[Len(split)]
\* line.split(" ")[3]
ConfigPath(split) == split[4]

\* fieldno == 2: if not self.config_file: self.config_file = line.split(" ")[3]
CfgReading ==
    /\ CfgInLoop
    /\ fieldno = 2
    /\ IF ~NoConfigFile
       THEN /\ cfg_i' = cfg_i + 1
            /\ UNCHANGED <<config_file, cfg_pc, cfg_exc>>
       ELSE IF Len(SplitSpace(cfg_line)) >= 4
       THEN /\ config_file' = ConfigPath(SplitSpace(cfg_line))
            /\ cfg_i' = cfg_i + 1
            /\ UNCHANGED <<cfg_pc, cfg_exc>>
       ELSE /\ cfg_pc' = "raised"
            /\ cfg_exc' = "IndexError"
            /\ UNCHANGED <<config_file, cfg_i>>
    /\ UNCHANGED <<cfg_lines, cfg_ret, caller, call_pc, call_err>>
    /\ UNCHANGED notCfg

\* elif fieldno in self.error_fields: return line
CfgError ==
    /\ CfgInLoop
    /\ fieldno # 2
    /\ fieldno \in error_fields
    /\ cfg_pc' = "returned"
    /\ cfg_ret' = PyStr(cfg_line.words)
    /\ UNCHANGED <<config_file, cfg_lines, cfg_i, cfg_exc, caller, call_pc, call_err>>
    /\ UNCHANGED notCfg

\* elif fieldno in self.success_fields: return None
CfgSuccess ==
    /\ CfgInLoop
    /\ fieldno # 2
    /\ fieldno \notin error_fields
    /\ fieldno \in success_fields
    /\ cfg_pc' = "returned"
    /\ cfg_ret' = PyNone
    /\ UNCHANGED <<config_file, cfg_lines, cfg_i, cfg_exc, caller, call_pc, call_err>>
    /\ UNCHANGED notCfg

\* any other line
CfgSkip ==
    /\ CfgInLoop
    /\ fieldno # 2
    /\ fieldno \notin error_fields
    /\ fieldno \notin success_fields
    /\ cfg_i' = cfg_i + 1
    /\ UNCHANGED <<config_file, cfg_lines, cfg_pc, cfg_ret, cfg_exc, caller,
                   call_pc, call_err>>
    /\ UNCHANGED notCfg

\* a _parse_configure that falls off its loop and returns None
ExhaustedReturns == "returned"

\* how _parse_configure ends when no line was decisive
ExhaustedOutcome == "raised"

\* raise ValueError("unable to parse configure response")
CfgExhausted ==
    /\ cfg_pc = "scan"
    /\ cfg_i >= Len(cfg_lines)
    /\ cfg_pc' = ExhaustedOutcome
    /\ cfg_exc' = IF ExhaustedOutcome = "raised" THEN "ValueError" ELSE None
    /\ UNCHANGED <<config_file, cfg_lines, cfg_i, cfg_ret, caller, call_pc, call_err>>
    /\ UNCHANGED notCfg

\* err = self._parse_configure(data); if err: raise ValueError(err); return None
\* an exception of _parse_configure passes through
CallEnd ==
    /\ call_pc = "parsing"
    /\ cfg_pc \in {"returned", "raised"}
    /\ IF cfg_pc = "raised"
       THEN call_pc' = "raised" /\ call_err' = PyNone
       ELSE IF Truthy(cfg_ret)
       THEN call_pc' = "raised" /\ call_err' = cfg_ret
       ELSE call_pc' = "returned" /\ call_err' = PyNone
    /\ UNCHANGED <<config_file, cfg_lines, cfg_i, cfg_pc, cfg_ret, cfg_exc, caller>>
    /\ UNCHANGED notCfg

check_config == caller = "check_config" /\ CallEnd
configure == caller = "configure" /\ CallEnd

NextConfigure ==
    \/ CfgReading
    \/ CfgError
    \/ CfgSuccess
    \/ CfgSkip
    \/ CfgExhausted
    \/ check_config
    \/ configure

\* 0002-Reading configuration from /etc/bird.conf
CReading ==
    Coded(2, "-", TextLine(<<"Reading", "configuration", "from", "/etc/bird.conf">>))
\* 0002-Reading
CReadingShort == Coded(2, "-", TextLine(<<"Reading">>))
\* 0020 Configuration OK
COk == Coded(20, " ", TextLine(<<"Configuration", "OK">>))
\* 0003 Reconfigured
CReconfigured == Coded(3, " ", TextLine(<<"Reconfigured">>))
\* 8002 /etc/bird.conf, line 3: syntax error
CSyntax ==
    Coded(8002, " ", TextLine(<<"/etc/bird.conf,", "line", "3:", "syntax", "error">>))
\* 8002<space>
CSyntaxEmpty == Coded(8002, " ", BlankLine)
\* 0013 Status report
CStatus == Coded(13, " ", TextLine(<<"Status", "report">>))
\* 0019 Nothing to do
CNothing == Coded(19, " ", TextLine(<<"Nothing", "to", "do">>))
\* syntax error
CPlain == TextLine(<<"syntax", "error">>)

\* the lines of the replies of SpecConfigure
CfgLines ==
    {LBanner, CReading, CReadingShort, COk, CReconfigured, CSyntax, CSyntaxEmpty,
     CStatus, CNothing, CPlain, LEnd, LBareEnd}

\* no route decoding is under way
RouteIdle ==
    /\ lines = <<>>
    /\ short = TRUE
    /\ counter = -1
    /\ prev_number = 1007
    /\ route_summary = EmptyDict
    /\ prev_prefix = None
    /\ routes = <<>>
    /\ alias = {}
    /\ pc = "idle"
    /\ exc = None
    /\ result = <<>>

InitConfigure ==
    /\ config_file \in {None, "/etc/bird.conf"}
    /\ cfg_lines \in SeqsUpTo(CfgLines, MaxCfgLines)
    /\ cfg_i = 0
    /\ cfg_pc = "scan"
    /\ cfg_ret = PyNone
    /\ cfg_exc = None
    /\ caller \in {"check_config", "configure"}
    /\ call_pc = "parsing"
    /\ call_err = PyNone
    /\ RouteIdle
    /\ DtIdle
    /\ PsIdle
    /\ PeerIdle
    /\ StatusIdle
    /\ SockIdle
    /\ CmdIdle

SpecConfigure == InitConfigure /\ [][NextConfigure]_vars

\* ------------------------------------------------------------------------
\* check_config and configure called one after the other on one instance:
\* each call decodes the reply to its own query

\* 0002-Reading configuration from /tmp/other.conf (changed 10:24)
CReadingOther ==
    Coded(2, "-", TextLine(<<"Reading", "configuration", "from", "/tmp/other.conf",
                             "(changed", "10:24)">>))

ReconfigureLines == {LBanner, CReading, CReadingOther, CReadingShort, COk, CSyntax}

MaxReplyLines == 2

\* data = self._send_query(query); err = self._parse_configure(data), in a
\* call made after the one before it has ended
NewCall ==
    /\ call_pc \in {"returned", "raised"}
    /\ caller' \in {"check_config", "configure"}
    /\ cfg_lines' \in SeqsUpTo(ReconfigureLines, MaxReplyLines)
    /\ cfg_i' = 0
    /\ cfg_pc' = "scan"
    /\ cfg_ret' = PyNone
    /\ cfg_exc' = None
    /\ call_pc' = "parsing"
    /\ call_err' = PyNone
    /\ UNCHANGED config_file
    /\ UNCHANGED notCfg

\* PyBird(socket_file, config_file=...) and its first call
InitReconfigure ==
    /\ config_file \in {None, "/usr/local/etc/bird.conf"}
    /\ cfg_lines \in SeqsUpTo(ReconfigureLines, MaxReplyLines)
    /\ cfg_i = 0
    /\ cfg_pc = "scan"
    /\ cfg_ret = PyNone
    /\ cfg_exc = None
    /\ caller \in {"check_config", "configure"}
    /\ call_pc = "parsing"
    /\ call_err = PyNone
    /\ RouteIdle
    /\ DtIdle
    /\ PsIdle
    /\ PeerIdle
    /\ StatusIdle
    /\ SockIdle
    /\ CmdIdle

NextReconfigure == NextConfigure \/ NewCall

SpecReconfigure == InitReconfigure /\ [][NextReconfigure]_vars

\* ------------------------------------------------------------------------
\* _calculate_datetime(value, now)

\* datetime(*map(int, (...))) : every text is converted, any failure is a
\* ValueError
DateOfInts(ints) ==
    IF \E i \in DOMAIN ints : ints[i].raised # None
    THEN Raise("ValueError")
    ELSE datetime(ints[1].value, ints[2].value, ints[3].value,
                  IF Len(ints) = 6 THEN ints[4].value ELSE 0,
                  IF Len(ints) = 6 THEN ints[5].value ELSE 0,
                  IF Len(ints) = 6 THEN ints[6].value ELSE 0)
FromInts(parts) == DateOfInts([i \in DOMAIN parts |-> int(parts[i])])

\* Case: YYYY-MM-DD HH:MM:SS
Case1(v) ==
    FromInts(<<Slice(v, 0, 4), Slice(v, 5, 7), Slice(v, 8, 10),
               Slice(v, 11, 13), Slice(v, 14, 16), Slice(v, 17, 19)>>)

\* Case: YYYY-MM-DD
Case2(v) == FromInts(<<Slice(v, 0, 4), Slice(v, 5, 7), Slice(v, 8, 10)>>)

\* value.split(".")[0]
Truncated(v) == Split(v, ".")[1]

\* Case: HH:mm:ss.nnn or HH:mm or HH:mm:ss, on the truncated value
Case3(v, n) ==
    LET hm == strptime_HM(v)
        parsed_value == IF hm.raised = None THEN hm ELSE strptime_HMS(v)
        hour == parsed_value.value.hour
        minute == parsed_value.value.minute
        result_date == [year |-> n.year, month |-> n.month, day |-> n.day,
                        hour |-> hour, minute |-> minute, second |-> 0]
    IN  IF parsed_value.raised # None
        THEN Raise("ValueError")
        ELSE IF n.hour < hour \/ (n.hour = hour /\ n.minute < minute)
        THEN Ok(DayBefore(result_date))
        ELSE Ok(result_date)

\* Case: "Jun13"
Case4(v, n) ==
    LET parsed == strptime_bd(v)
        year == IF n.month = parsed.value.month
                THEN IF n.day <= parsed.value.day THEN n.year - 1 ELSE n.year
                ELSE IF n.month > parsed.value.month
                THEN n.year
                ELSE n.year - 1
    IN  IF parsed.raised # None
        THEN Raise("ValueError")
        ELSE datetime(year, parsed.value.month, parsed.value.day, 0, 0, 0)

\* Case: plain year
Case5(v) ==
    LET year == int(v)
    IN  IF year.raised # None
        THEN Raise("ValueError")
        ELSE datetime(year.value, 1, 1, 0, 0, 0)

\* the call as a function: the text returned, or the exception
FirstResolved(cases) ==
    IF \A i \in DOMAIN cases : cases[i].raised # None
    THEN Raise("ValueError")
    ELSE Ok(strftime(cases[CHOOSE i \in DOMAIN cases :
                               /\ cases[i].raised = None
                               /\ \A j \in 1..(i - 1) : cases[j].raised # None].value))
CasesOf(v, cut, n) ==
    <<Case1(v), Case2(v), Case3(cut, n), Case4(cut, n), Case5(cut)>>
calculate_datetime(v, n) == FirstResolved(CasesOf(v, Truncated(v), n))

\* the call step by step: one action per try block
DtReturn(dt) ==
    /\ dt_pc' = "returned"
    /\ dt_ret' = strftime(dt)
    /\ UNCHANGED <<dt_arg, value, now, dt_exc>>

DtCase1 ==
    /\ dt_pc = "case1"
    /\ LET attempt == Case1(value)
       IN  IF attempt.raised = None
           THEN DtReturn(attempt.value)
           ELSE dt_pc' = "case2" /\ UNCHANGED <<dt_arg, value, now, dt_ret, dt_exc>>
    /\ UNCHANGED notDt

DtCase2 ==
    /\ dt_pc = "case2"
    /\ LET attempt == Case2(value)
       IN  IF attempt.raised = None
           THEN DtReturn(attempt.value)
           ELSE dt_pc' = "case3" /\ UNCHANGED <<dt_arg, value, now, dt_ret, dt_exc>>
    /\ UNCHANGED notDt

\* the try block assigns value before it parses
DtCase3 ==
    /\ dt_pc = "case3"
    /\ value' = Truncated(value)
    /\ LET attempt == Case3(Truncated(value), now)
       IN  IF attempt.raised = None
           THEN /\ dt_pc' = "returned"
                /\ dt_ret' = strftime(attempt.value)
                /\ UNCHANGED <<dt_arg, now, dt_exc>>
           ELSE dt_pc' = "case4" /\ UNCHANGED <<dt_arg, now, dt_ret, dt_exc>>
    /\ UNCHANGED notDt

DtCase4 ==
    /\ dt_pc = "case4"
    /\ LET attempt == Case4(value, now)
       IN  IF attempt.raised = None
           THEN DtReturn(attempt.value)
           ELSE dt_pc' = "case5" /\ UNCHANGED <<dt_arg, value, now, dt_ret, dt_exc>>
    /\ UNCHANGED notDt

\* raise ValueError("Can not parse datetime: [%s]" % value)
DtCase5 ==
    /\ dt_pc = "case5"
    /\ LET attempt == Case5(value)
       IN  IF attempt.raised = None
           THEN DtReturn(attempt.value)
           ELSE /\ dt_pc' = "raised"
            /\ dt_exc' = [type |-> "ValueError", carries |-> value]
            /\ UNCHANGED <<dt_arg, value, now, dt_ret>>
    /\ UNCHANGED notDt

\* _parse_router_status_line(line, parse_date=True) on the text after the
\* third blank of the line
parse_date(data) ==
    LET modern == strptime_Ymd(Truncated(data))
    IN  IF modern.raised = None THEN modern ELSE strptime_dmY(Truncated(data))

\* ------------------------------------------------------------------------
\* _parse_router_status_line

\* " ".join(ws)
RECURSIVE Join(_)
Join(ws) ==
    IF ws = <<>> THEN <<>>
    ELSE IF Len(ws) = 1 THEN ws[1]
    ELSE ws[1] \o <<" ">> \o Join(Tail(ws))

\* line.strip().split(" ", 3)[-1], w being the stripped line split at blanks
LastOfSplit3(w) ==
    IF Len(w) >= 4 THEN Join(SubSeq(w, 4, Len(w)))
    ELSE IF w = <<>> THEN <<>>
    ELSE w[Len(w)]

parse_router_status_line(w, with_date) ==
    IF with_date THEN parse_date(LastOfSplit3(w)) ELSE Ok(LastOfSplit3(w))

\* Last reboot on <timestamp>
RebootLine(stamp) ==
    TextLine(<<<<"L", "a", "s", "t">>, <<"r", "e", "b", "o", "o", "t">>,
               <<"o", "n">>>> \o Split(stamp, " "))

\* the call on a line of the status reply, parse_date=True
StatusLineDate ==
    /\ rs_pc = "call"
    /\ LET parsed == parse_router_status_line(rs_line.words, TRUE)
       IN  IF parsed.raised = None
           THEN rs_pc' = "returned" /\ rs_ret' = parsed.value
           ELSE rs_pc' = "raised" /\ UNCHANGED rs_ret
    /\ UNCHANGED <<rs_line, notRs>>

NextDatetime ==
    DtCase1 \/ DtCase2 \/ DtCase3 \/ DtCase4 \/ DtCase5 \/ StatusLineDate

InitDatetime ==
    /\ dt_arg \in RawValues
    /\ value = dt_arg
    /\ now \in Nows
    /\ dt_pc = "case1"
    /\ dt_ret = <<>>
    /\ dt_exc = NoError
    /\ rs_line = RebootLine(dt_arg)
    /\ rs_pc = "call"
    /\ rs_ret = NoDate
    /\ RouteIdle
    /\ CfgIdle
    /\ PsIdle
    /\ PeerIdle
    /\ StatusIdle
    /\ SockIdle
    /\ CmdIdle

SpecDatetime == InitDatetime /\ [][NextDatetime]_vars

\* ------------------------------------------------------------------------
\* _parse_peer_summary(line): elements is line.split()

PyTrue == "True"
PyFalse == "False"

\* a selection that takes the sixth token whatever it holds
SelectedSixth(tokens) ==
    IF Len(tokens) < 6 THEN PyNone ELSE PyStr(tokens[6])
\* lines 555-565: the state token and the up flag; an IndexError gives None
SelectedState(tokens) ==
    IF Len(tokens) < 6 THEN PyNone
    ELSE IF \E i \in DOMAIN tokens[6] : tokens[6][i] = ":"
    THEN IF Len(tokens) < 7 THEN PyNone ELSE PyStr(tokens[7])
    ELSE PyStr(tokens[6])
UpOf(st) ==
    IF st.none THEN None
    ELSE IF Lower(st.text) = <<"e", "s", "t", "a", "b", "l", "i", "s", "h", "e", "d">>
    THEN PyTrue
    ELSE PyFalse

\* the call as a function, with the clock reading n
SummaryOfLine(tokens, last_change, st) ==
    IF last_change.raised # None THEN Raise("ValueError")
    ELSE Ok([name |-> tokens[1],
             protocol |-> tokens[2],
             last_change |-> last_change.value,
             state |-> st,
             up |-> UpOf(st)])
parse_peer_summary(tokens, n) ==
    IF Len(tokens) < 5 THEN Raise("IndexError")
    ELSE SummaryOfLine(tokens, calculate_datetime(tokens[5], n),
                       SelectedState(tokens))

\* the call step by step: the try block, then the timestamp and the return
PsState ==
    /\ ps_pc = "state"
    /\ state' = SelectedState(elements)
    /\ up' = UpOf(SelectedState(elements))
    /\ ps_pc' = "last_change"
    /\ UNCHANGED <<elements, ps_ret, ps_exc, notPs>>

PsLastChange ==
    /\ ps_pc = "last_change"
    /\ \E n \in Nows :
          \E summary \in {parse_peer_summary(elements, n)} :
              IF summary.raised = None
              THEN /\ ps_pc' = "returned"
                   /\ ps_ret' = [summary.value EXCEPT !.state = state, !.up = up]
                   /\ UNCHANGED ps_exc
              ELSE /\ ps_pc' = "raised"
                   /\ ps_exc' = summary.raised
                   /\ UNCHANGED ps_ret
    /\ UNCHANGED <<elements, state, up, notPs>>

NextPeerSummary == PsState \/ PsLastChange

\* the tokens of the peer summary lines
W_PS1 == <<"P", "S", "1">>
W_PS2 == <<"P", "S", "2">>
W_device1 == <<"d", "e", "v", "i", "c", "e", "1">>
W_BGP == <<"B", "G", "P">>
W_Device == <<"D", "e", "v", "i", "c", "e">>
W_bgp == <<"b", "g", "p">>
W_T_PS1 == <<"T", "_", "P", "S", "1">>
W_up == <<"u", "p">>
W_start == <<"s", "t", "a", "r", "t">>
W_Established == <<"E", "s", "t", "a", "b", "l", "i", "s", "h", "e", "d">>
W_ESTABLISHED == <<"E", "S", "T", "A", "B", "L", "I", "S", "H", "E", "D">>
W_Passive == <<"P", "a", "s", "s", "i", "v", "e">>
W_Active == <<"A", "c", "t", "i", "v", "e">>
W_Socket == <<"S", "o", "c", "k", "e", "t", ":">>
W_refused == <<"r", "e", "f", "u", "s", "e", "d">>
W_IsoDay == <<"2", "0", "1", "2", "-", "0", "1", "-", "1", "0">>
W_Clock == <<"1", "0", ":", "2", "4", ":", "3", "7">>

\* name, protocol, table, state
SummaryHeads ==
    {<<W_PS1, W_BGP, W_T_PS1, W_up>>, <<W_PS2, W_bgp, W_T_PS1, W_start>>,
     <<W_device1, W_Device, W_T_PS1, W_up>>}
\* the since column: a month and day, a date, a date and a time, a time
\* with a fraction, a word
SummarySinces ==
    {<<T_Jun13>>, <<W_IsoDay>>, <<W_IsoDay, W_Clock>>, <<T_Fraction>>,
     <<T_Word>>}
\* the info column
SummaryInfos ==
    {<<>>, <<W_Established>>, <<W_ESTABLISHED>>, <<W_Passive>>,
     <<W_Active, W_Socket, W_refused>>}
\* the token lists of SpecPeerSummary: whole lines, and lines cut short
SummaryElements ==
    {h \o s \o i : h \in SummaryHeads, s \in SummarySinces, i \in SummaryInfos}
    \cup {SubSeq(h, 1, k) : h \in SummaryHeads, k \in 1..4}

\* ------------------------------------------------------------------------
\* _parse_peer_detail(peer_detail_raw)

\* the four decimal digits of a reply code
CodeChars(n) == D2(n \div 100) \o D2(n % 100)

\* the stripped text of a line: its words with one blank between them, after
\* the reply code and its separator if the line has one
TextOf(l) ==
    IF l.digits = NoneNum THEN Join(l.words)
    ELSE Strip(CodeChars(l.digits)
               \o (IF l.sep = "" THEN <<>> ELSE <<l.sep>>) \o Join(l.words))

\* line.strip() == ""
Blank(l) == l.digits = NoneNum /\ l.words = <<>>

NonEmpty(w) == w # <<>>
\* text.split()
Words(text) == SelectSeq(Split(text, " "), NonEmpty)

\* int(re.findall(r"(\d+) <label>", value)[0]) if there is a match, else 0:
\* the digits that end right before the first " <label>" that follows a digit
Counted(text, label) ==
    LET hits == {q \in 1..Len(text) :
                    /\ IsDigit(text[q])
                    /\ Slice(text, q, q + Len(label)) = label}
        q == CHOOSE h \in hits : \A g \in hits : h <= g
        p == CHOOSE s \in 1..q :
                 /\ \A j \in s..q : IsDigit(text[j])
                 /\ (s = 1 \/ ~IsDigit(text[s - 1]))
    IN  IF hits = {} THEN 0 ELSE Decimal(SubSeq(text, p, q))

route_change_fields ==
    <<<<<<"i", "m", "p", "o", "r", "t", " ", "u", "p", "d", "a", "t", "e", "s">>, "import_updates">>,
      <<<<"i", "m", "p", "o", "r", "t", " ", "w", "i", "t", "h", "d", "r", "a", "w", "s">>, "import_withdraws">>,
      <<<<"e", "x", "p", "o", "r", "t", " ", "u", "p", "d", "a", "t", "e", "s">>, "export_updates">>,
      <<<<"e", "x", "p", "o", "r", "t", " ", "w", "i", "t", "h", "d", "r", "a", "w", "s">>, "export_withdraws">>>>

field_map ==
    <<<<<<"d", "e", "s", "c", "r", "i", "p", "t", "i", "o", "n">>, "description">>,
      <<<<"n", "e", "i", "g", "h", "b", "o", "r", " ", "i", "d">>, "router_id">>,
      <<<<"n", "e", "i", "g", "h", "b", "o", "r", " ", "a", "d", "d", "r", "e", "s", "s">>, "address">>,
      <<<<"n", "e", "i", "g", "h", "b", "o", "r", " ", "a", "s">>, "asn">>,
      <<<<"s", "o", "u", "r", "c", "e", " ", "a", "d", "d", "r", "e", "s", "s">>, "source">>,
      <<<<"p", "r", "e", "f", "e", "r", "e", "n", "c", "e">>, "preference">>,
      <<<<"i", "n", "p", "u", "t", " ", "f", "i", "l", "t", "e", "r">>, "input_filter">>,
      <<<<"o", "u", "t", "p", "u", "t", " ", "f", "i", "l", "t", "e", "r">>, "output_filter">>,
      <<<<"r", "o", "u", "t", "e", " ", "l", "i", "m", "i", "t">>, "route_limit">>,
      <<<<"h", "o", "l", "d", " ", "t", "i", "m", "e", "r">>, "hold_timer">>,
      <<<<"k", "e", "e", "p", "a", "l", "i", "v", "e", " ", "t", "i", "m", "e", "r">>, "keepalive_timer">>>>

\* the entry of a table for a field name; 0 if there is none
Lookup(table, field) ==
    IF \E k \in DOMAIN table : table[k][1] = field
    THEN CHOOSE k \in DOMAIN table : table[k][1] = field
    ELSE 0

\* result_dict[key_name] = int(value), for the outcome of int(value)
StoredCell(result_dict, key_name, cell) ==
    IF cell.raised # None
    THEN Raise("ValueError")
    ELSE Ok(DictSet(result_dict, key_name, cell.value))

\* a decoder that stores 0 for a cell without a value
parse_route_stat_zero(result_dict, key_name, text) ==
    IF text = <<"-", "-", "-">> THEN Ok(DictSet(result_dict, key_name, 0))
    ELSE StoredCell(result_dict, key_name, int(text))
\* _parse_route_stats: a "---" cell stores nothing, any other cell is stored
\* as an integer
parse_route_stat(result_dict, key_name, text) ==
    IF text = <<"-", "-", "-">> THEN Ok(result_dict)
    ELSE StoredCell(result_dict, key_name, int(text))

\* the five calls of _parse_route_stats for the cells of a row, in order
route_stats_columns == <<"received", "rejected", "filtered", "ignored", "accepted">>
RECURSIVE parse_route_stats(_, _, _, _)
\* the cells after cell k, unless cell k raised
RestOfRow(stored_cell, base, cells, k) ==
    IF stored_cell.raised # None
    THEN stored_cell
    ELSE parse_route_stats(stored_cell.value, base, cells, k + 1)
parse_route_stats(result_dict, base, cells, k) ==
    IF k > Len(cells) THEN Ok(result_dict)
    ELSE RestOfRow(parse_route_stat(result_dict,
                       base \o "_" \o route_stats_columns[k], cells[k]),
                   base, cells, k)

\* one iteration of the loop over the lines of the block
DetailLine(result_dict, text) ==
    LET parts == Split(text, ":")
        field == Lower(parts[1])
        val == Strip(SubSeq(text, Len(parts[1]) + 2, Len(text)))
        counted ==
            IF field = <<"r", "o", "u", "t", "e", "s">>
            THEN DictUpdate(result_dict,
                     [routes_imported |-> Counted(val, <<" ", "i", "m", "p", "o", "r", "t", "e", "d">>),
                      routes_exported |-> Counted(val, <<" ", "e", "x", "p", "o", "r", "t", "e", "d">>),
                      routes_filtered |-> Counted(val, <<" ", "f", "i", "l", "t", "e", "r", "e", "d">>),
                      routes_preferred |-> Counted(val, <<" ", "p", "r", "e", "f", "e", "r", "r", "e", "d">>)])
            ELSE result_dict
        row == Lookup(route_change_fields, field)
        changed ==
            IF row = 0 THEN Ok(counted)
            ELSE IF Len(Words(val)) # 5 THEN Raise("ValueError")
            ELSE parse_route_stats(counted, route_change_fields[row][2],
                                   Words(val), 1)
        entry == Lookup(field_map, field)
    IN  IF Len(parts) < 2 THEN Ok(result_dict)
        ELSE IF changed.raised # None THEN changed
        ELSE IF entry = 0 THEN changed
        ELSE Ok(DictSet(changed.value, field_map[entry][2], val))

RECURSIVE parse_peer_detail_from(_, _, _)
parse_peer_detail_from(result_dict, peer_detail_raw, k) ==
    IF k > Len(peer_detail_raw) THEN Ok(result_dict)
    ELSE LET after == DetailLine(result_dict, TextOf(peer_detail_raw[k]))
         IN  IF after.raised # None
             THEN after
             ELSE parse_peer_detail_from(after.value, peer_detail_raw, k + 1)

parse_peer_detail(peer_detail_raw) ==
    parse_peer_detail_from(EmptyDict, peer_detail_raw, 1)

\* ------------------------------------------------------------------------
\* _parse_peer_data: one action per iteration of "for line in lineiterator";
\* p_i is the number of lines the iterator has given out

\* line.strip(): a blank after the reply code goes when nothing follows it
Stripped(l) ==
    IF l.sep = " " /\ l.words = <<>> THEN [l EXCEPT !.sep = ""] ELSE l

p_raw == p_lines[p_i + 1]
field_number == extract_field_number(Stripped(p_raw)).number
p_line == extract_field_number(Stripped(p_raw)).line

PeerInLoop == p_pc = "loop" /\ p_i < Len(p_lines)

PeerFail(e) ==
    /\ p_pc' = "raised"
    /\ p_exc' = e
    /\ UNCHANGED <<p_lines, p_i, peers, data_contains_detail, p_ret>>

PeerContinue ==
    /\ p_i' = p_i + 1
    /\ UNCHANGED <<p_lines, peers, data_contains_detail, p_pc, p_exc, p_ret>>

\* if field_number in self.ignored_field_numbers: continue
PeerIgnored ==
    /\ PeerInLoop
    /\ field_number \in ignored_field_numbers
    /\ PeerContinue
    /\ UNCHANGED <<peer_summary, notPeer>>

\* field_number == 1002
PeerSummary ==
    /\ PeerInLoop
    /\ field_number = 1002
    /\ \E n \in PeerNows :
          LET summary == parse_peer_summary(p_line.words, n)
          IN  IF summary.raised # None
              THEN PeerFail(summary.raised)
              ELSE IF summary.value.protocol # <<"B", "G", "P">>
              THEN peer_summary' = NoSummary /\ PeerContinue
              ELSE IF ~data_contains_detail
              THEN peer_summary' = summary.value /\ PeerFail("AttributeError")
              ELSE peer_summary' = summary.value /\ PeerContinue
    /\ UNCHANGED notPeer

\* the lines that next() gives to the while loop of a detail block: up to
\* and including the first blank line; there is none if the input runs out
BlockEnds ==
    {k \in (p_i + 2)..Len(p_lines) :
        /\ Blank(p_lines[k])
        /\ \A j \in (p_i + 2)..(k - 1) : ~Blank(p_lines[j])}

\* a decoder that keeps the summary after it has saved a record
SummaryKeptAfterUse == peer_summary
\* peer_summary = None, once the record is saved
SummaryAfterUse == NoSummary

\* a decoder that returns what it has when a block is cut short
CutShortReturns == "returned"
\* line = next(lineiterator) on an exhausted iterator raises StopIteration
CutShortOutcome == "raised"

\* field_number == 1006
PeerDetail ==
    /\ PeerInLoop
    /\ field_number = 1006
    /\ IF ~data_contains_detail
       THEN PeerFail("AttributeError") /\ UNCHANGED peer_summary
       ELSE IF peer_summary = NoSummary
       THEN PeerContinue /\ UNCHANGED peer_summary
       ELSE IF ~Blank(p_line) /\ BlockEnds = {}
       THEN /\ p_pc' = CutShortOutcome
            /\ p_exc' = IF CutShortOutcome = "raised" THEN "StopIteration" ELSE p_exc
            /\ p_ret' = IF CutShortOutcome = "raised" THEN p_ret ELSE peers
            /\ p_i' = Len(p_lines)
            /\ UNCHANGED <<p_lines, peer_summary, peers, data_contains_detail>>
       ELSE LET k == IF Blank(p_line)
                     THEN p_i + 1
                     ELSE CHOOSE e \in BlockEnds : TRUE
                peer_detail_raw ==
                    IF Blank(p_line)
                    THEN <<>>
                    ELSE <<p_line>> \o SubSeq(p_lines, p_i + 2, k - 1)
                peer_detail == parse_peer_detail(peer_detail_raw)
            IN  IF peer_detail.raised # None
                THEN /\ p_pc' = "raised"
                     /\ p_exc' = peer_detail.raised
                     /\ p_i' = k
                     /\ UNCHANGED <<p_lines, peer_summary, peers,
                                    data_contains_detail, p_ret>>
                ELSE /\ peers' = Append(peers, DictUpdate(peer_detail.value,
                                                          peer_summary))
                     /\ peer_summary' = SummaryAfterUse
                     /\ p_i' = k
                     /\ UNCHANGED <<p_lines, data_contains_detail, p_pc, p_exc,
                                    p_ret>>
    /\ UNCHANGED notPeer

\* any other line: with no detail expected peers.append_peer_summary() is
\* called, which a list does not have
PeerOther ==
    /\ PeerInLoop
    /\ field_number \notin ignored_field_numbers \cup {1002, 1006}
    /\ IF ~data_contains_detail
       THEN PeerFail("AttributeError")
       ELSE PeerContinue
    /\ UNCHANGED <<peer_summary, notPeer>>

\* return peers
PeerReturn ==
    /\ p_pc = "loop"
    /\ p_i = Len(p_lines)
    /\ p_pc' = "returned"
    /\ p_ret' = peers
    /\ UNCHANGED <<p_lines, p_i, peer_summary, peers, data_contains_detail,
                   p_exc, notPeer>>

NextPeer == PeerIgnored \/ PeerSummary \/ PeerDetail \/ PeerOther \/ PeerReturn

\* 1002-PS1 BGP T_PS1 up 2012-01-10 Established
PBgp == Coded(1002, "-", TextLine(<<W_PS1, W_BGP, W_T_PS1, W_up, W_IsoDay, W_Established>>))
\* 1002-PS2 BGP T_PS1 start 2012-01-10 Passive
PBgpPassive == Coded(1002, "-", TextLine(<<W_PS2, W_BGP, W_T_PS1, W_start, W_IsoDay, W_Passive>>))
\* 1002-device1 Device T_PS1 up 2012-01-10
PDevice == Coded(1002, "-", TextLine(<<W_device1, W_Device, W_T_PS1, W_up, W_IsoDay>>))
\* 1006-  Description:    Peering
PDescription == Coded(1006, "-", TextLine(<<<<"D", "e", "s", "c", "r", "i", "p", "t", "i", "o", "n", ":">>, <<"P", "e", "e", "r", "i", "n", "g">>>>))
\* 1006- : a detail block with an empty first line
PEmptyDetail == Coded(1006, "-", BlankLine)
\*   Preference:     100
PPreference == [TextLine(<<<<"P", "r", "e", "f", "e", "r", "e", "n", "c", "e", ":">>, <<"1", "0", "0">>>>) EXCEPT !.lead = TRUE]
\*   Routes:         24 imported, 23 exported, 0 preferred
PRoutes == [TextLine(<<<<"R", "o", "u", "t", "e", "s", ":">>, <<"2", "4">>, <<"i", "m", "p", "o", "r", "t", "e", "d", ",">>, <<"2", "3">>, <<"e", "x", "p", "o", "r", "t", "e", "d", ",">>, <<"0">>, <<"p", "r", "e", "f", "e", "r", "r", "e", "d">>>>) EXCEPT !.lead = TRUE]
\*     Import updates:             50          3        ---         0          0
PImportUpdates == [TextLine(<<<<"I", "m", "p", "o", "r", "t">>, <<"u", "p", "d", "a", "t", "e", "s", ":">>, <<"5", "0">>, <<"3">>, <<"-", "-", "-">>, <<"0">>, <<"0">>>>) EXCEPT !.lead = TRUE]

\* 2002-name proto table state since info
PHeader == Coded(2002, "-", TextLine(<<<<"n", "a", "m", "e">>, <<"p", "r", "o", "t", "o">>, <<"t", "a", "b", "l", "e">>, <<"s", "t", "a", "t", "e">>, <<"s", "i", "n", "c", "e">>, <<"i", "n", "f", "o">>>>))

\* the lines of the replies of SpecPeer
PeerLines ==
    {PHeader, PBgp, PBgpPassive, PDevice, PDescription, PEmptyDetail,
     PPreference, BlankLine}

InitPeerSummary ==
    /\ elements \in SummaryElements
    /\ state = PyNone
    /\ up = None
    /\ ps_pc = "state"
    /\ ps_ret = NoSummary
    /\ ps_exc = None
    /\ RouteIdle
    /\ CfgIdle
    /\ DtIdle
    /\ PeerIdle
    /\ StatusIdle
    /\ SockIdle
    /\ CmdIdle

SpecPeerSummary == InitPeerSummary /\ [][NextPeerSummary]_vars

InitPeer ==
    /\ p_lines \in SeqsUpTo(PeerLines, MaxPeerLines)
    /\ p_i = 0
    /\ peer_summary = NoSummary
    /\ peers = <<>>
    /\ data_contains_detail = TRUE
    /\ p_pc = "loop"
    /\ p_exc = None
    /\ p_ret = <<>>
    /\ RouteIdle
    /\ CfgIdle
    /\ DtIdle
    /\ PsIdle
    /\ StatusIdle
    /\ SockIdle
    /\ CmdIdle

SpecPeer == InitPeer /\ [][NextPeer]_vars

\* ------------------------------------------------------------------------
\* replies of "show protocols all" with one BGP peer and its detail block

\*   Routes:         24 imported, 3 filtered, 23 exported, 20 preferred
PRoutesAll == [TextLine(<<<<"R", "o", "u", "t", "e", "s", ":">>, <<"2", "4">>, <<"i", "m", "p", "o", "r", "t", "e", "d", ",">>, <<"3">>, <<"f", "i", "l", "t", "e", "r", "e", "d", ",">>, <<"2", "3">>, <<"e", "x", "p", "o", "r", "t", "e", "d", ",">>, <<"2", "0">>, <<"p", "r", "e", "f", "e", "r", "r", "e", "d">>>>) EXCEPT !.lead = TRUE]
\*     Import updates:             61          3         19         0         39
PImportUpdatesFull == [TextLine(<<<<"I", "m", "p", "o", "r", "t">>, <<"u", "p", "d", "a", "t", "e", "s", ":">>, <<"6", "1">>, <<"3">>, <<"1", "9">>, <<"0">>, <<"3", "9">>>>) EXCEPT !.lead = TRUE]
\*     Export withdraws:            7        ---        ---       ---          7
PExportWithdraws == [TextLine(<<<<"E", "x", "p", "o", "r", "t">>, <<"w", "i", "t", "h", "d", "r", "a", "w", "s", ":">>, <<"7">>, <<"-", "-", "-">>, <<"-", "-", "-">>, <<"-", "-", "-">>, <<"7">>>>) EXCEPT !.lead = TRUE]
\*     Export updates:             12          0
PShortRow == [TextLine(<<<<"E", "x", "p", "o", "r", "t">>, <<"u", "p", "d", "a", "t", "e", "s", ":">>, <<"1", "2">>, <<"0">>>>) EXCEPT !.lead = TRUE]
\*   Channel ipv4
PChannel == [TextLine(<<<<"C", "h", "a", "n", "n", "e", "l">>, <<"i", "p", "v", "4">>>>) EXCEPT !.lead = TRUE]

\* the first line of a detail block carries the code 1006
DetailFirstLines ==
    {PDescription, Coded(1006, "-", PRoutes), Coded(1006, "-", PImportUpdates)}

DetailLines ==
    {PRoutes, PRoutesAll, PImportUpdates, PImportUpdatesFull, PExportWithdraws,
     PShortRow, PChannel, PPreference}

MaxDetailLines == 2

InitPeerRoutes ==
    /\ p_lines \in
          {pre \o <<PBgp, first>> \o rest \o <<BlankLine>> \o post :
              pre \in {<<>>, <<PHeader>>},
              first \in DetailFirstLines,
              rest \in SeqsUpTo(DetailLines, MaxDetailLines),
              post \in {<<>>, <<PPreference>>}}
    /\ p_i = 0
    /\ peer_summary = NoSummary
    /\ peers = <<>>
    /\ data_contains_detail = TRUE
    /\ p_pc = "loop"
    /\ p_exc = None
    /\ p_ret = <<>>
    /\ RouteIdle
    /\ CfgIdle
    /\ DtIdle
    /\ PsIdle
    /\ StatusIdle
    /\ SockIdle
    /\ CmdIdle

SpecPeerRoutes == InitPeerRoutes /\ [][NextPeer]_vars

\* ------------------------------------------------------------------------
\* _parse_status: one action per iteration of "for line in line_iterator";
\* s_i is the number of lines the iterator has given out

s_raw == s_lines[s_i + 1]
s_field_number == extract_field_number(Stripped(s_raw)).number
s_line == extract_field_number(Stripped(s_raw)).line

StatusInLoop == s_pc = "loop" /\ s_i < Len(s_lines)

StatusContinue ==
    /\ s_i' = s_i + 1
    /\ UNCHANGED <<s_lines, s_pc, s_exc, s_ret>>

\* text.find(pat): the first place where pat starts, 0 if there is none
Find(text, pat) ==
    LET hits == {q \in 1..Len(text) : Slice(text, q - 1, q - 1 + Len(pat)) = pat}
    IN  IF hits = {} THEN 0 ELSE CHOOSE h \in hits : \A g \in hits : h <= g

\* line.lstrip().startswith("Hostname is")
IsHostnameLine(l) ==
    Slice(TextOf(l), 0, 11) = <<"H", "o", "s", "t", "n", "a", "m", "e", " ", "i", "s">>

\* line.split(" is ")[1]
SecondOfSplitIs(text) ==
    LET p == Find(text, <<" ", "i", "s", " ">>)
        rest == SubSeq(text, p + 4, Len(text))
        q == Find(rest, <<" ", "i", "s", " ">>)
    IN  IF p = 0 THEN Raise("IndexError")
        ELSE IF q = 0 THEN Ok(rest)
        ELSE Ok(SubSeq(rest, 1, q - 1))

\* the block of a code-1011 line, as an outcome so far: the exception (or
\* None), data as it then is, and the number of lines taken from ls, the
\* lines the iterator still holds

\* data["router_id"] = self._parse_router_status_line(line)
block_start(d, w) ==
    [raised |-> None,
     value |-> DictSet(d, "router_id", parse_router_status_line(w, FALSE).value),
     taken |-> 0]

\* line = next(line_iterator)
next_line(b, ls) ==
    IF b.raised # None THEN b
    ELSE IF b.taken >= Len(ls)
    THEN [b EXCEPT !.raised = "StopIteration"]
    ELSE [b EXCEPT !.taken = @ + 1]

\* data[key] = r, r being the outcome of the call that gives the value
stored(b, key, r) ==
    IF b.raised # None THEN b
    ELSE IF r.raised # None THEN [b EXCEPT !.raised = r.raised]
    ELSE [b EXCEPT !.value = DictSet(@, key, r.value)]

\* a decoder that stores the host name and stays on its line
hostname_line_stays(b, ls) ==
    IF b.raised # None THEN b
    ELSE IF ~IsHostnameLine(ls[b.taken]) THEN b
    ELSE stored(b, "hostname", SecondOfSplitIs(TextOf(ls[b.taken])))
\* if line.lstrip().startswith("Hostname is"): ... line = next(line_iterator)
hostname_line(b, ls) ==
    IF b.raised # None THEN b
    ELSE IF ~IsHostnameLine(ls[b.taken]) THEN b
    ELSE next_line(stored(b, "hostname", SecondOfSplitIs(TextOf(ls[b.taken]))),
                   ls)

\* data[key] = self._parse_router_status_line(line, parse_date=True)
date_line(b, key, ls) ==
    IF b.raised # None THEN b
    ELSE stored(b, key,
                parse_router_status_line(Split(TextOf(ls[b.taken]), " "), TRUE))

status_block(d, w, ls) ==
    date_line(
        next_line(
            date_line(
                next_line(hostname_line(next_line(block_start(d, w), ls), ls),
                          ls),
                "last_reboot", ls),
            ls),
        "last_reconfiguration", ls)

\* if field_number in self.ignored_field_numbers: continue
StatusIgnored ==
    /\ StatusInLoop
    /\ s_field_number \in ignored_field_numbers
    /\ StatusContinue
    /\ UNCHANGED <<s_data, notStatus>>

\* field_number == 1000: data["version"] = line.split(" ")[1]
StatusVersion ==
    /\ StatusInLoop
    /\ s_field_number = 1000
    /\ IF Len(s_line.words) < 2
       THEN /\ s_pc' = "raised"
            /\ s_exc' = "IndexError"
            /\ UNCHANGED <<s_lines, s_i, s_data, s_ret>>
       ELSE /\ s_data' = DictSet(s_data, "version", s_line.words[2])
            /\ StatusContinue
    /\ UNCHANGED notStatus

\* field_number == 1011: the router id, then the lines that follow
StatusRouter ==
    /\ StatusInLoop
    /\ s_field_number = 1011
    /\ \E block \in {status_block(s_data, s_line.words,
                                  SubSeq(s_lines, s_i + 2, Len(s_lines)))} :
          /\ s_data' = block.value
          /\ s_i' = s_i + 1 + block.taken
          /\ s_pc' = IF block.raised = None THEN s_pc ELSE "raised"
          /\ s_exc' = IF block.raised = None THEN s_exc ELSE block.raised
          /\ UNCHANGED s_ret
    /\ UNCHANGED <<s_lines, notStatus>>

\* any other line
StatusOther ==
    /\ StatusInLoop
    /\ s_field_number \notin ignored_field_numbers \cup {1000, 1011}
    /\ StatusContinue
    /\ UNCHANGED <<s_data, notStatus>>

\* return data
StatusReturn ==
    /\ s_pc = "loop"
    /\ s_i = Len(s_lines)
    /\ s_pc' = "returned"
    /\ s_ret' = s_data
    /\ UNCHANGED <<s_lines, s_i, s_data, s_exc, notStatus>>

NextStatus ==
    StatusIgnored \/ StatusVersion \/ StatusRouter \/ StatusOther
        \/ StatusReturn

\* 0001 BIRD 1.3.0 ready.
SBanner == Coded(1, " ", TextLine(<<<<"B", "I", "R", "D">>, <<"1", ".", "3", ".", "0">>, <<"r", "e", "a", "d", "y", ".">>>>))
\* 1000-BIRD 1.3.0
SVersion == Coded(1000, "-", TextLine(<<<<"B", "I", "R", "D">>, <<"1", ".", "3", ".", "0">>>>))
\* 1011-Router ID is 195.69.146.34
SRouter == Coded(1011, "-", TextLine(<<<<"R", "o", "u", "t", "e", "r">>, <<"I", "D">>, <<"i", "s">>, <<"1", "9", "5", ".", "6", "9", ".", "1", "4", "6", ".", "3", "4">>>>))
\*  Hostname is bird2
SHostname == [TextLine(<<<<"H", "o", "s", "t", "n", "a", "m", "e">>, <<"i", "s">>, <<"b", "i", "r", "d", "2">>>>) EXCEPT !.lead = TRUE]
\*  Current server time is 10-01-2012 10:24:37
STime == [TextLine(<<<<"C", "u", "r", "r", "e", "n", "t">>, <<"s", "e", "r", "v", "e", "r">>, <<"t", "i", "m", "e">>, <<"i", "s">>, <<"1", "0", "-", "0", "1", "-", "2", "0", "1", "2">>, <<"1", "0", ":", "2", "4", ":", "3", "7">>>>) EXCEPT !.lead = TRUE]
\*  Last reboot on 03-01-2012 12:46:40
SReboot == [RebootLine(T_LegacyReboot) EXCEPT !.lead = TRUE]
\*  Last reconfiguration on 2012-01-10 10:24:37
SReconfiguration == [TextLine(<<<<"L", "a", "s", "t">>, <<"r", "e", "c", "o", "n", "f", "i", "g", "u", "r", "a", "t", "i", "o", "n">>, <<"o", "n">>, <<"2", "0", "1", "2", "-", "0", "1", "-", "1", "0">>, <<"1", "0", ":", "2", "4", ":", "3", "7">>>>) EXCEPT !.lead = TRUE]
\* 0013 Daemon is up and running
SDaemonUp == Coded(13, " ", TextLine(<<<<"D", "a", "e", "m", "o", "n">>, <<"i", "s">>, <<"u", "p">>, <<"a", "n", "d">>, <<"r", "u", "n", "n", "i", "n", "g">>>>))

StatusLines ==
    {SBanner, SVersion, SRouter, SHostname, STime, SReboot, SReconfiguration,
     SDaemonUp}
\* the reply of a daemon that names its host
StatusReply ==
    <<SBanner, SVersion, SRouter, SHostname, STime, SReboot, SReconfiguration,
      SDaemonUp>>

InitStatus ==
    /\ s_lines \in SeqsUpTo(StatusLines, MaxStatusLines)
                     \cup {SubSeq(StatusReply, 1, k) : k \in 5..8}
    /\ s_i = 0
    /\ s_data = EmptyDict
    /\ s_pc = "loop"
    /\ s_exc = None
    /\ s_ret = EmptyDict
    /\ RouteIdle
    /\ CfgIdle
    /\ DtIdle
    /\ PsIdle
    /\ PeerIdle
    /\ SockIdle
    /\ CmdIdle

SpecStatus == InitStatus /\ [][NextStatus]_vars

\* ------------------------------------------------------------------------
\* the two decoders that read ahead with next(), each on a reply of its own,
\* run to their end: a call is a sequential program, which takes its next
\* step whenever it has one

InitLookahead ==
    /\ \/ /\ s_lines \in SeqsUpTo(StatusLines, MaxLookaheadLines)
                           \cup {SubSeq(StatusReply, 1, k) : k \in 5..8}
          /\ s_i = 0
          /\ s_data = EmptyDict
          /\ s_pc = "loop"
          /\ s_exc = None
          /\ s_ret = EmptyDict
          /\ PeerIdle
       \/ /\ p_lines \in SeqsUpTo(PeerLines, MaxLookaheadLines)
          /\ p_i = 0
          /\ peer_summary = NoSummary
          /\ peers = <<>>
          /\ data_contains_detail = TRUE
          /\ p_pc = "loop"
          /\ p_exc = None
          /\ p_ret = <<>>
          /\ StatusIdle
    /\ RouteIdle
    /\ CfgIdle
    /\ DtIdle
    /\ PsIdle
    /\ SockIdle
    /\ CmdIdle

NextLookahead == NextStatus \/ NextPeer

\* a decoder is inside its loop: exactly then it has a next step
LookaheadRunning == s_pc = "loop" \/ p_pc = "loop"

\* weak fairness of the step, written out with LookaheadRunning in the place
\* of ENABLED <<NextLookahead>>_vars: a call that is inside its loop goes on
SpecLookahead ==
    /\ InitLookahead
    /\ [][NextLookahead]_vars
    /\ ([]<>~LookaheadRunning \/ []<><<NextLookahead>>_vars)

\* ------------------------------------------------------------------------
\* _socket_query: the reply is the text the daemon writes to the socket, one
\* character for each byte (ASCII); sent counts the bytes recv has given out

\* sock.recv(1024 * 1024)
RecvMax == 1048576
\* this_read[-256:]
TailLen == 256
\* most recv calls of a run
MaxReads == 5
\* how many bytes a recv may give, besides all that is there
ChunkSizes == {1, 2, 3, TailLen + 1}

\* b"".join(chunks)
RECURSIVE Joined(_)
Joined(chunks) ==
    IF chunks = <<>> THEN <<>> ELSE Head(chunks) \o Joined(Tail(chunks))

\* s[-n:]
Last(s, n) == SubSeq(s, Len(s) - Min(n, Len(s)) + 1, Len(s))

\* the code alone, with no newline before it
TerminalDigits(code) == CodeChars(code)
\* f"\n{code:04}"
TerminalPattern(code) == <<"\n">> \o CodeChars(code)

\* any(tail.find(f"\n{code:04}") != -1 for code in error_fields + success_fields)
SeenTerminal(text) ==
    \E code \in error_fields \cup success_fields :
        Find(text, TerminalPattern(code)) # 0

\* lines 848-851: the text that is searched after a read
TailOf(chunks) ==
    IF Len(chunks[Len(chunks)]) > TailLen
    THEN Last(chunks[Len(chunks)], TailLen)
    ELSE Last(Joined(SubSeq(chunks, Len(chunks) - Min(2, Len(chunks)) + 1,
                            Len(chunks))),
              TailLen)

\* this_read = sock.recv(...) gives n bytes; data.append, the tail, the test
SockRead ==
    /\ sq_pc = "recv"
    /\ Len(sq_data) < MaxReads
    /\ \E n \in {k \in ChunkSizes \cup {Len(stream) - sent} :
                    k >= 1 /\ k <= Len(stream) - sent /\ k <= RecvMax} :
          \E chunks \in {Append(sq_data, SubSeq(stream, sent + 1, sent + n))} :
             \E searched \in {TailOf(chunks)} :
                /\ sent' = sent + n
                /\ sq_data' = chunks
                /\ tail' = searched
                /\ IF SeenTerminal(searched)
                   THEN sq_pc' = "returned" /\ sq_ret' = Joined(chunks)
                   ELSE UNCHANGED <<sq_pc, sq_ret>>
    /\ UNCHANGED <<stream, sq_exc, notSock>>

\* the daemon closes the connection: recv gives b"", "if not this_read" raises
SockClosed ==
    /\ sq_pc = "recv"
    /\ sq_pc' = "raised"
    /\ sq_exc' = "ValueError"
    /\ UNCHANGED <<stream, sent, sq_data, tail, sq_ret, notSock>>

NextSocket == SockRead \/ SockClosed

\* n bytes of a line's text
Filler(n) == [k \in 1..n |-> "x"]

\* a banner and the end of a reply
R_Ok == <<"0", "0", "0", "1", " ", "\n", "0", "0", "0", "0", " ", "\n">>
\* a banner and an error
R_Error == <<"0", "0", "0", "1", " ", "\n", "8", "0", "0", "1", " ", "n", "o", "\n">>
\* a reply that is its terminal line
R_Bare == <<"0", "0", "0", "0", " ", "\n">>
\* a reply that stops before its terminal line
R_Open == <<"0", "0", "0", "1", " ", "\n", "1", "0", "0", "0", "-", "v", "\n">>
\* a line longer than the tail, then the end of the reply
R_Long == <<"1", "0", "0", "0", "-">> \o Filler(TailLen + 2) \o <<"\n", "0", "0", "1", "3", " ", "u", "p", "\n">>
Replies == {R_Ok, R_Error, R_Bare, R_Open, R_Long}

InitSocket ==
    /\ stream \in Replies
    /\ sent = 0
    /\ sq_data = <<>>
    /\ tail = <<>>
    /\ sq_pc = "recv"
    /\ sq_ret = <<>>
    /\ sq_exc = None
    /\ RouteIdle
    /\ CfgIdle
    /\ DtIdle
    /\ PsIdle
    /\ PeerIdle
    /\ StatusIdle
    /\ CmdIdle

SpecSocket == InitSocket /\ [][NextSocket]_vars

\* ------------------------------------------------------------------------
\* one PyBird instance, which knows a configuration path or none, and one
\* call of one of its four decoders on one reply

InitDecoders ==
    /\ config_file \in {None, "/usr/local/etc/bird.conf"}
    /\ \/ /\ lines \in SeqsUpTo(RouteLines, MaxDecoderLines)
          /\ RouteStart
          /\ short = TRUE
          /\ cfg_lines = <<>> /\ cfg_pc = "idle" /\ caller = None
          /\ call_pc = "idle"
          /\ StatusIdle
          /\ PeerIdle
       \/ /\ cfg_lines \in SeqsUpTo(CfgLines, MaxDecoderLines)
          /\ cfg_pc = "scan"
          /\ caller \in {"check_config", "configure"}
          /\ call_pc = "parsing"
          /\ RouteIdle
          /\ StatusIdle
          /\ PeerIdle
       \/ /\ s_lines \in SeqsUpTo(StatusLines, MaxDecoderLines)
                           \cup {SubSeq(StatusReply, 1, k) : k \in 5..8}
          /\ s_i = 0
          /\ s_data = EmptyDict
          /\ s_pc = "loop"
          /\ s_exc = None
          /\ s_ret = EmptyDict
          /\ cfg_lines = <<>> /\ cfg_pc = "idle" /\ caller = None
          /\ call_pc = "idle"
          /\ RouteIdle
          /\ PeerIdle
       \/ /\ p_lines \in SeqsUpTo(PeerLines, MaxDecoderLines)
          /\ p_i = 0
          /\ peer_summary = NoSummary
          /\ peers = <<>>
          /\ data_contains_detail = TRUE
          /\ p_pc = "loop"
          /\ p_exc = None
          /\ p_ret = <<>>
          /\ cfg_lines = <<>> /\ cfg_pc = "idle" /\ caller = None
          /\ call_pc = "idle"
          /\ RouteIdle
          /\ StatusIdle
    /\ cfg_i = 0
    /\ cfg_ret = PyNone
    /\ cfg_exc = None
    /\ call_err = PyNone
    /\ DtIdle
    /\ PsIdle
    /\ SockIdle
    /\ CmdIdle

NextDecoders == NextRoute \/ NextConfigure \/ NextStatus \/ NextPeer

SpecDecoders == InitDecoders /\ [][NextDecoders]_vars

\* ------------------------------------------------------------------------
\* the public operations that embed a peer name in a query: one action per
\* operation, from the call to the query it hands to _send_query

AsciiLetters ==
    {"a", "b", "c", "d", "e", "f", "g", "h", "i", "j", "k", "l", "m", "n", "o", "p", "q", "r", "s", "t", "u", "v", "w", "x", "y", "z",
     "A", "B", "C", "D", "E", "F", "G", "H", "I", "J", "K", "L", "M", "N", "O", "P", "Q", "R", "S", "T", "U", "V", "W", "X", "Y", "Z"}
IsAlnum(ch) == IsDigit(ch) \/ ch \in AsciiLetters
\* the characters of \w
IsWordChar(ch) == IsAlnum(ch) \/ ch = "_"

\* _clean_input: clean_input_re.sub("", inp).strip(), clean_input_re = \W+ ;
\* re.sub raises TypeError for None
clean_input(inp) ==
    IF inp.none THEN Raise("TypeError")
    ELSE Ok(Strip(SelectSeq(inp.text, IsWordChar)))

\* "show route all", " all " if full, " table {table}" if table,
\* " for {prefix}" if prefix, " protocol {peer}" if peer
routes_query(table, prefix, peer, full) ==
    <<"s", "h", "o", "w", " ", "r", "o", "u", "t", "e", " ", "a", "l", "l">>
    \o (IF full THEN <<" ", "a", "l", "l", " ">> ELSE <<>>)
    \o (IF Truthy(table) THEN <<" ", "t", "a", "b", "l", "e", " ">> \o table.text ELSE <<>>)
    \o (IF Truthy(prefix) THEN <<" ", "f", "o", "r", " ">> \o prefix.text ELSE <<>>)
    \o (IF Truthy(peer) THEN <<" ", "p", "r", "o", "t", "o", "c", "o", "l", " ">> \o peer.text ELSE <<>>)

\* "show route table T_{} all protocol {}".format(name, name)
announced_query(name) ==
    <<"s", "h", "o", "w", " ", "r", "o", "u", "t", "e", " ", "t", "a", "b", "l", "e", " ", "T", "_">> \o name \o <<" ", "a", "l", "l", " ", "p", "r", "o", "t", "o", "c", "o", "l", " ">> \o name

\* "show route all table T_{} export {}".format(name, name)
exported_query(name) ==
    <<"s", "h", "o", "w", " ", "r", "o", "u", "t", "e", " ", "a", "l", "l", " ", "t", "a", "b", "l", "e", " ", "T", "_">> \o name \o <<" ", "e", "x", "p", "o", "r", "t", " ">> \o name

\* "show route all protocol %s" % name
accepted_query(name) ==
    <<"s", "h", "o", "w", " ", "r", "o", "u", "t", "e", " ", "a", "l", "l", " ", "p", "r", "o", "t", "o", "c", "o", "l", " ">> \o name

\* "show route for %s all" % prefix, " protocol %s" % peer_name if
\* peer_name is not None
prefix_info_query(prefix, peer_name) ==
    <<"s", "h", "o", "w", " ", "r", "o", "u", "t", "e", " ", "f", "o", "r", " ">> \o prefix.text \o <<" ", "a", "l", "l">>
    \o (IF peer_name.none THEN <<>> ELSE <<" ", "p", "r", "o", "t", "o", "c", "o", "l", " ">> \o peer_name.text)

\* 'show protocols all "%s"' % name
peer_status_query(name) ==
    <<"s", "h", "o", "w", " ", "p", "r", "o", "t", "o", "c", "o", "l", "s", " ", "a", "l", "l", " ", "\"">> \o name \o <<"\"">>
\* "show protocols all"
all_peers_query == <<"s", "h", "o", "w", " ", "p", "r", "o", "t", "o", "c", "o", "l", "s", " ", "a", "l", "l">>

CmdCalled(op) == q_pc = "called" /\ q_op = op

\* data = self._send_query(query)
SendQuery(q) ==
    /\ query' = q
    /\ q_pc' = "sent"
    /\ UNCHANGED <<q_op, q_table, q_prefix, q_peer, q_full, q_exc>>

CmdFail(e) ==
    /\ q_pc' = "raised"
    /\ q_exc' = e
    /\ UNCHANGED <<q_op, q_table, q_prefix, q_peer, q_full, query>>

get_routes ==
    /\ CmdCalled("get_routes")
    /\ SendQuery(routes_query(q_table, q_prefix, q_peer, q_full))
    /\ UNCHANGED notCmd

get_peer_prefixes_announced ==
    /\ CmdCalled("get_peer_prefixes_announced")
    /\ \E name \in {clean_input(q_peer)} :
           IF name.raised # None
           THEN CmdFail(name.raised)
           ELSE SendQuery(announced_query(name.value))
    /\ UNCHANGED notCmd

get_peer_prefixes_exported ==
    /\ CmdCalled("get_peer_prefixes_exported")
    /\ \E name \in {clean_input(q_peer)} :
           IF name.raised # None
           THEN CmdFail(name.raised)
           ELSE SendQuery(exported_query(name.value))
    /\ UNCHANGED notCmd

get_peer_prefixes_accepted ==
    /\ CmdCalled("get_peer_prefixes_accepted")
    /\ \E name \in {clean_input(q_peer)} :
           IF name.raised # None
           THEN CmdFail(name.raised)
           ELSE SendQuery(accepted_query(name.value))
    /\ UNCHANGED notCmd

get_prefix_info ==
    /\ CmdCalled("get_prefix_info")
    /\ SendQuery(prefix_info_query(q_prefix, q_peer))
    /\ UNCHANGED notCmd

get_peer_status ==
    /\ CmdCalled("get_peer_status")
    /\ IF Truthy(q_peer)
       THEN SendQuery(peer_status_query(clean_input(q_peer).value))
       ELSE SendQuery(all_peers_query)
    /\ UNCHANGED notCmd

NextCommand ==
    \/ get_routes
    \/ get_peer_prefixes_announced
    \/ get_peer_prefixes_exported
    \/ get_peer_prefixes_accepted
    \/ get_prefix_info
    \/ get_peer_status

\* the peer names the callers supply
N_PS1 == <<"P", "S", "1">>
N_T_PS1 == <<"T", "_", "P", "S", "1">>
N_Blank == <<"P", "S", " ", "1">>
N_Dash == <<"b", "-", "1">>
N_Quoted == <<"P", "S", "1", "\"", " ", "a", "l", "l">>
N_Padded == <<" ", "P", "S", "1", " ">>
N_Semicolon == <<"P", "S", "1", ";", "c", "o", "n", "f", "i", "g", "u", "r", "e">>
PeerNames ==
    {PyNone, PyStr(<<>>), PyStr(N_PS1), PyStr(N_T_PS1), PyStr(N_Blank),
     PyStr(N_Dash), PyStr(N_Quoted), PyStr(N_Padded), PyStr(N_Semicolon)}

A_master == <<"m", "a", "s", "t", "e", "r">>
A_prefix == <<"1", ".", "2", ".", "3", ".", "0", "/", "2", "4">>

InitCommand ==
    /\ q_op \in {"get_routes", "get_peer_prefixes_announced",
                 "get_peer_prefixes_exported", "get_peer_prefixes_accepted",
                 "get_prefix_info", "get_peer_status"}
    /\ q_peer \in PeerNames
    /\ q_table \in IF q_op = "get_routes"
                   THEN {PyNone, PyStr(A_master)} ELSE {PyNone}
    /\ q_prefix \in CASE q_op = "get_routes" -> {PyNone, PyStr(A_prefix)}
                      [] q_op = "get_prefix_info" -> {PyStr(A_prefix)}
                      [] OTHER -> {PyNone}
    /\ q_full \in IF q_op = "get_routes" THEN BOOLEAN ELSE {FALSE}
    /\ query = <<>>
    /\ q_pc = "called"
    /\ q_exc = None
    /\ RouteIdle
    /\ CfgIdle
    /\ DtIdle
    /\ PsIdle
    /\ PeerIdle
    /\ StatusIdle
    /\ SockIdle

SpecCommand == InitCommand /\ [][NextCommand]_vars

\* ------------------------------------------------------------------------
\* vocabulary of the properties

\* the reply code a line starts with
CodeOf(l) == extract_field_number(l).number

IsSummary(l) == CodeOf(l) = 1007 /\ l.kind = "summary"
IsDialectB(l) == IsSummary(l) /\ l.hop = "unicast"
IsHopLine(l) == l.digits = NoneNum /\ l.lead /\ l.kind = "hop"
IsTypeLine(l) == CodeOf(l) = 1008 /\ l.kind = "type"
IsEndLine(l) == CodeOf(l) = 0

SummaryLines(ls) == SelectSeq(ls, IsSummary)
Prefix(ls, k) == SubSeq(ls, 1, k)

\* a reply as the daemon sends it: an optional banner, then per route a
\* summary line (dialect B: followed by its via/dev line) and an optional type
\* line, then the code-0 line; the first summary line carries a prefix
WellFormedReply(ls) ==
    /\ Len(ls) >= 1
    /\ IsEndLine(ls[Len(ls)])
    /\ SummaryLines(ls) # <<>> => SummaryLines(ls)[1].prefix # None
    /\ \A j \in 1..(Len(ls) - 1) :
          \/ j = 1 /\ ls[j] = LBanner
          \/ IsSummary(ls[j]) /\ ~IsDialectB(ls[j]) /\ ls[j].hop \in {"via", "dev"}
          \/ IsDialectB(ls[j]) /\ IsHopLine(ls[j + 1])
          \/ IsHopLine(ls[j]) /\ j > 1 /\ IsDialectB(ls[j - 1])
          \/ /\ IsTypeLine(ls[j])
             /\ j > 1
             /\ \/ IsSummary(ls[j - 1]) /\ ~IsDialectB(ls[j - 1])
                \/ IsHopLine(ls[j - 1])

\* lines processed so far by the route decoder
Done == IF pc = "raised" THEN counter ELSE counter + 1

Max(a, b) == IF a >= b THEN a ELSE b

\* the record that the summary line l is to give
RecordOf(r, l) ==
    /\ {"source", "time", "prefix", "peer", "interface"} \subseteq DOMAIN r
    /\ r["source"] = l.source
    /\ r["time"] = l.time

\* ------------------------------------------------------------------------
\* C1: in a well-formed reply with at least one route and no 8001 line the
\* decoder does not fail, holds one sealed record per summary line read so
\* far except the one in progress (all of them once the code-0 line is read),
\* and returns exactly the records of the summary lines, in reply order; a
\* dialect-B via/dev line seals nothing.
C1_OneRecordPerSummary ==
    (WellFormedReply(lines) /\ Len(SummaryLines(lines)) >= 1) =>
        /\ pc # "raised"
        /\ pc = "loop" =>
              Len(routes) =
                 IF \E j \in 1..Done : IsEndLine(lines[j])
                 THEN Len(SummaryLines(Prefix(lines, Done)))
                 ELSE Max(Len(SummaryLines(Prefix(lines, Done))) - 1, 0)
        /\ pc = "returned" =>
              /\ Len(result) = Len(SummaryLines(lines))
              /\ \A i \in 1..Len(result) :
                    RecordOf(result[i], SummaryLines(lines)[i])

\* the summary lines of a well-formed reply that a type line follows
TypedSummaries(ls) ==
    {j \in 1..Len(ls) :
        /\ IsSummary(ls[j])
        /\ \/ ~IsDialectB(ls[j]) /\ j + 1 <= Len(ls) /\ IsTypeLine(ls[j + 1])
           \/ IsDialectB(ls[j]) /\ j + 2 <= Len(ls) /\ IsTypeLine(ls[j + 2])}
TypeLineOf(ls, j) == IF IsDialectB(ls[j]) THEN ls[j + 2] ELSE ls[j + 1]

\* C2: every summary line of a well-formed reply that is followed by a type
\* line gives a returned record with the fields of the summary line and that
\* type, in both dialects.
C2_TypeOnOwnRecord ==
    (pc = "returned" /\ WellFormedReply(lines)) =>
        \A j \in TypedSummaries(lines) :
            \E i \in 1..Len(result) :
                /\ RecordOf(result[i], lines[j])
                /\ "type" \in DOMAIN result[i]
                /\ result[i]["type"] = TypeLineOf(lines, j).tval

\* C3: once the code-0 line has been processed no further line appends a
\* record.
C3_NothingAfterEnd ==
    [][(pc = "loop" /\ \E j \in 1..Done : IsEndLine(lines[j]))
          => routes' = routes]_vars

\* the first code-8001 line of the reply
Has8001 == \E j \in 1..Len(lines) : CodeOf(lines[j]) = 8001
First8001 ==
    CHOOSE j \in 1..Len(lines) :
        CodeOf(lines[j]) = 8001 /\ \A k \in 1..(j - 1) : CodeOf(lines[k]) # 8001

\* C4: a decode of a reply with a code-8001 line returns the empty sequence,
\* whatever was accumulated before; the only other way it ends is an error
\* raised on a line before the 8001 line.
C4_NotFoundIsEmpty ==
    (Has8001 /\ pc # "loop") =>
        /\ pc = "returned" => result = <<>>
        /\ pc = "raised" => counter + 1 < First8001

\* C4 witness: records were appended, then the 8001 line emptied the result
C4_Witness ==
    /\ pc = "returned"
    /\ Has8001
    /\ Len(routes) >= 1
    /\ DictLen(route_summary) > 0
    /\ result = <<>>

\* ------------------------------------------------------------------------
SuccessCodes == {0, 3, 4, 18, 20}
ErrorCodes == {13, 19, 8001, 8002, 8003, 9000, 9001, 9002}
Decisive(l) == CodeOf(l) \in SuccessCodes \cup ErrorCodes
HasDecisive == \E j \in 1..Len(cfg_lines) : Decisive(cfg_lines[j])
FirstDecisive ==
    CHOOSE j \in 1..Len(cfg_lines) :
        Decisive(cfg_lines[j]) /\ \A k \in 1..(j - 1) : ~Decisive(cfg_lines[k])

\* C5: _parse_configure returns at the first decisive line and nowhere else:
\* None when its code is a success code, its cleaned text when its code is
\* an error code; a scan that fails does so before a decisive line is read.
C5_FirstDecisiveLine ==
    /\ cfg_pc = "returned" =>
          /\ HasDecisive
          /\ cfg_i + 1 = FirstDecisive
          /\ CodeOf(cfg_lines[FirstDecisive]) \in SuccessCodes => cfg_ret = PyNone
          /\ CodeOf(cfg_lines[FirstDecisive]) \in ErrorCodes =>
                cfg_ret = PyStr(extract_field_number(cfg_lines[FirstDecisive]).line.words)
    /\ (cfg_pc = "raised" /\ HasDecisive) =>
          /\ cfg_i + 1 < FirstDecisive
          /\ cfg_exc = "IndexError"

\* C5 witness: an error line decided, and a success line follows it
C5_Witness ==
    /\ cfg_pc = "returned"
    /\ Truthy(cfg_ret)
    /\ cfg_i + 2 <= Len(cfg_lines)
    /\ CodeOf(cfg_lines[cfg_i + 1]) = 13
    /\ CodeOf(cfg_lines[cfg_i + 2]) \in SuccessCodes

\* C6: check_config and configure return None only when the first decisive
\* line has a success code, and raise ValueError with the error text when it
\* has an error code.
C6_ErrorNeverSuccess ==
    /\ call_pc = "returned" =>
          HasDecisive /\ CodeOf(cfg_lines[FirstDecisive]) \in SuccessCodes
    /\ (call_pc = "raised" /\ cfg_pc = "returned") =>
          call_err = PyStr(extract_field_number(cfg_lines[FirstDecisive]).line.words)

\* C7: with no decisive line in the reply _parse_configure never returns: it
\* raises ValueError once every line is read (or IndexError on a code-2 line
\* that is too short), and its caller does not return either.
C7_NoTerminalCodeFails ==
    (~HasDecisive /\ cfg_pc # "scan") =>
        /\ cfg_pc = "raised"
        /\ \/ cfg_exc = "ValueError" /\ cfg_i = Len(cfg_lines)
           \/ cfg_exc = "IndexError" /\ CodeOf(cfg_lines[cfg_i + 1]) = 2
        /\ call_pc # "returned"

\* C7 witness: a reply of several lines, none decisive, read to its end
C7_Witness ==
    /\ ~HasDecisive
    /\ Len(cfg_lines) >= 2
    /\ cfg_i = Len(cfg_lines)
    /\ cfg_pc = "raised"
    /\ cfg_exc = "ValueError"
    /\ call_pc = "raised"

\* ------------------------------------------------------------------------
NoDup(ls) == \A j, k \in 1..Len(ls) : ls[j] = ls[k] => j = k

\* the summary lines before line j that carry a prefix
Explicit(ls, j) == {k \in 1..(j - 1) : IsSummary(ls[k]) /\ ls[k].prefix # None}
LastExplicit(ls, j) ==
    CHOOSE k \in Explicit(ls, j) : \A m \in Explicit(ls, j) : m <= k

\* C8: a returned record of a summary line without a prefix has the prefix
\* of the most recent earlier summary line that carries one.
C8_PrefixContinuation ==
    (pc = "returned" /\ NoDup(lines)) =>
        \A j \in 1..Len(lines) : \A i \in 1..Len(result) :
            (/\ IsSummary(lines[j])
             /\ lines[j].prefix = None
             /\ Explicit(lines, j) # {}
             /\ RecordOf(result[i], lines[j]))
            => result[i]["prefix"] = lines[LastExplicit(lines, j)].prefix

\* the first summary line of the reply
FirstSummary ==
    CHOOSE j \in 1..Len(lines) :
        IsSummary(lines[j]) /\ \A k \in 1..(j - 1) : ~IsSummary(lines[k])

\* C9: the decode of a code-0-terminated reply whose first summary line has
\* no prefix fails with an error once that line is read, and no returned
\* record has the prefix None.
C9_FirstPrefixRequired ==
    /\ (/\ pc # "loop"
        /\ SummaryLines(lines) # <<>>
        /\ IsEndLine(lines[Len(lines)])
        /\ ~Has8001
        /\ lines[FirstSummary].prefix = None
        /\ Done >= FirstSummary) => pc = "raised"
    /\ pc = "returned" =>
          \A i \in 1..Len(result) :
              "prefix" \in DOMAIN result[i] => result[i]["prefix"] # None

\* C10: right after a summary line of the test is processed the decoder has
\* not failed and the record in progress is the record of that line.
C10_TestShapesRecognised ==
    (/\ pc \in {"loop", "raised"}
     /\ counter >= 0
     /\ lines[counter + 1] \in TestLines)
    => (pc = "loop" /\ RecordOf(route_summary, lines[counter + 1]))

\* a code-1007 line that is not empty, is no Table header and matches
\* neither bird1route nor bird2route
Malformed(l) ==
    /\ CodeOf(l) = 1007
    /\ extract_field_number(l).line.kind \notin {"blank", "table"}
    /\ ~bird1route_match(extract_field_number(l).line)
    /\ ~bird2route_match(extract_field_number(l).line)

\* C11: a code-1007 line that is not empty, is no Table header and matches
\* neither dialect makes the route decode fail on that line: once the decoder
\* has taken such a line it has raised there, and has not gone past it.
C11_MalformedSummaryFails ==
    \A i \in 1..Len(lines) :
        (i <= counter + 1 /\ Malformed(lines[i])) =>
            (pc = "raised" /\ counter + 1 = i)

\* ------------------------------------------------------------------------
\* the timestamp resolver

DtEnded == dt_pc \in {"returned", "raised"}

\* a bare time of day: HH:MM or HH:MM:SS, with an optional fraction
BareTime(v) ==
    \/ strptime_HM(Truncated(v)).raised = None
    \/ strptime_HMS(Truncated(v)).raised = None
TimeOf(v) ==
    IF strptime_HM(Truncated(v)).raised = None
    THEN strptime_HM(Truncated(v)).value
    ELSE strptime_HMS(Truncated(v)).value
SecondOfDay(t) == 3600 * t.hour + 60 * t.minute + t.second

\* the time of day t on the calendar day of n
OnDayOf(n, t) ==
    [year |-> n.year, month |-> n.month, day |-> n.day,
     hour |-> t.hour, minute |-> t.minute, second |-> t.second]

\* C17: for a bare time the resolver returns the parsed time of day on the
\* day before now when that time of day is after now's, and on now's day
\* otherwise.
C17_BareTimeDay ==
    (DtEnded /\ BareTime(dt_arg)) =>
        /\ dt_pc = "returned"
        /\ dt_ret =
              strftime(IF SecondOfDay(TimeOf(dt_arg)) > SecondOfDay(now)
                       THEN DayBefore(OnDayOf(now, TimeOf(dt_arg)))
                       ELSE OnDayOf(now, TimeOf(dt_arg)))

\* DD-MM-YYYY HH:MM:SS
IsLegacy(v) ==
    /\ Len(v) = 19
    /\ v[3] = "-" /\ v[6] = "-" /\ v[11] = " "
    /\ AllDigits(Slice(v, 0, 2)) /\ AllDigits(Slice(v, 3, 5))
    /\ AllDigits(Slice(v, 6, 10))
\* the same date spelled YYYY-MM-DD HH:MM:SS
Respell(v) ==
    Slice(v, 6, 10) \o <<"-">> \o Slice(v, 3, 5) \o <<"-">> \o Slice(v, 0, 2)
    \o Slice(v, 10, Len(v))

\* C18 as stated: _calculate_datetime resolves a DD-MM-YYYY HH:MM:SS value
\* to the instant of its YYYY-MM-DD HH:MM:SS respelling.
C18_LegacySameInstant ==
    (DtEnded /\ IsLegacy(dt_arg)) =>
        /\ dt_pc = "returned"
        /\ dt_ret = calculate_datetime(Respell(dt_arg), now).value

\* C18, amended: _parse_router_status_line with parse_date resolves a
\* DD-MM-YYYY HH:MM:SS value to the instant of its YYYY-MM-DD HH:MM:SS
\* respelling; _calculate_datetime resolves the respelling and fails on the
\* DD-MM-YYYY value with a ValueError.
C18_StatusLineSameInstant ==
    IsLegacy(dt_arg) =>
        /\ rs_pc # "call" =>
              /\ rs_pc = "returned"
              /\ parse_date(Respell(dt_arg)).raised = None
              /\ rs_ret = parse_date(Respell(dt_arg)).value
        /\ DtEnded => dt_pc = "raised"
        /\ calculate_datetime(Respell(dt_arg), now).raised = None
C18_Witness ==
    /\ dt_arg = T_Legacy
    /\ rs_pc = "returned"
    /\ rs_ret = Clock(2012, 1, 10, 10, 24, 37)
    /\ dt_pc = "raised"

\* C19: every one of the five attempts is made on the raw value as passed
\* in, and a raw value that fits none of the five formats ends in a parse
\* error that carries the raw value as passed in.
C19_ParseErrorCarriesRaw ==
    /\ dt_pc \in {"case1", "case2", "case3", "case4", "case5"} =>
          value = dt_arg
    /\ dt_pc = "raised" => dt_exc.carries = dt_arg
    /\ (/\ DtEnded
        /\ Case1(dt_arg).raised # None
        /\ Case2(dt_arg).raised # None
        /\ Case3(Truncated(dt_arg), now).raised # None
        /\ Case4(dt_arg, now).raised # None
        /\ Case5(dt_arg).raised # None) => dt_pc = "raised"

\* ------------------------------------------------------------------------
\* peers

HasColon(w) == \E i \in DOMAIN w : w[i] = ":"
\* the place of the state among the tokens (the sixth, or the seventh when
\* the sixth holds a colon)
StatePlace(tokens) ==
    IF Len(tokens) >= 6 /\ HasColon(tokens[6]) THEN 7 ELSE 6
SameIgnoringCase(a, b) == Lower(a) = Lower(b)

\* what C20 says of the summary of a token list
StateAndUpAsClaimed(tokens, summary) ==
    IF StatePlace(tokens) <= Len(tokens)
    THEN /\ summary.state = PyStr(tokens[StatePlace(tokens)])
         /\ summary.up =
               IF SameIgnoringCase(tokens[StatePlace(tokens)], <<"E", "S", "T", "A", "B", "L", "I", "S", "H", "E", "D">>)
               THEN PyTrue ELSE PyFalse
    ELSE /\ summary.state = PyNone
         /\ summary.up = None

PsEnded == ps_pc \in {"returned", "raised"}

\* C20 as stated: the state of a summary is token 6 when token 5 holds a
\* colon and token 5 otherwise, its up says whether the state is
\* "established" in any case, and a line whose state token is missing still
\* gives a summary, with state and up None.
C20_StateAndUp ==
    PsEnded =>
        /\ ps_pc = "returned" => StateAndUpAsClaimed(elements, ps_ret)
        /\ StatePlace(elements) > Len(elements) => ps_pc = "returned"

\* C20, amended: the same for every line that has at least five tokens and
\* a fifth token (index 4) that _calculate_datetime resolves; a shorter line
\* ends in IndexError and an unresolvable fifth token in ValueError, and no
\* summary is produced.
C20_StateAndUpWhenResolved ==
    PsEnded =>
        /\ ps_pc = "returned" => StateAndUpAsClaimed(elements, ps_ret)
        /\ ps_pc = "returned" <=>
              /\ Len(elements) >= 5
              /\ \A n \in Nows : calculate_datetime(elements[5], n).raised = None
        /\ ps_pc = "raised" =>
              ps_exc = IF Len(elements) < 5 THEN "IndexError" ELSE "ValueError"
C20_Witness ==
    /\ ps_pc = "returned"
    /\ Len(elements) = 7
    /\ HasColon(elements[6])
    /\ ps_ret.state = PyStr(W_ESTABLISHED)
    /\ ps_ret.up = PyTrue

\* the detail block that starts at the line in hand
BlockInHand ==
    IF Blank(p_line) THEN <<>>
    ELSE <<p_line>>
         \o SubSeq(p_lines, p_i + 2, (CHOOSE e \in BlockEnds : TRUE) - 1)

\* C12: every record is a BGP summary joined with a detail block.  A record
\* is appended only at a code-1006 line while a summary is pending, holds
\* that summary and the detail of the block that starts there, and clears the
\* pending summary; the pending summary is always a BGP one and is replaced
\* (or, if not BGP, dropped) by each later code-1002 line; what is returned is
\* the list of these records.
C12_RecordPairsSummaryWithBlock ==
    /\ [](/\ \A i \in DOMAIN peers : peers[i].protocol = W_BGP
          /\ peer_summary # NoSummary => peer_summary.protocol = W_BGP
          /\ p_pc = "returned" => p_ret = peers)
    /\ [][/\ peers' # peers =>
               /\ PeerInLoop
               /\ field_number = 1006
               /\ peer_summary # NoSummary
               /\ peer_summary' = NoSummary
               /\ peers' = Append(peers,
                      DictUpdate(parse_peer_detail(BlockInHand).value,
                                 peer_summary))
          /\ (peer_summary' # peer_summary /\ peers' = peers) =>
               /\ PeerInLoop
               /\ field_number = 1002
               /\ \/ peer_summary' = NoSummary
                  \/ /\ peer_summary'.name = p_line.words[1]
                     /\ peer_summary'.protocol = W_BGP
          /\ (PeerInLoop /\ field_number = 1002 /\ p_pc' = "loop") =>
               IF p_line.words[2] = W_BGP
               THEN peer_summary' # NoSummary
                    /\ peer_summary'.name = p_line.words[1]
               ELSE peer_summary' = NoSummary]_vars
C12_Witness ==
    /\ p_pc = "returned"
    /\ p_lines = <<PBgp, PBgpPassive, PDescription, BlankLine>>
    /\ Len(p_ret) = 1
    /\ p_ret[1].name = W_PS2
    /\ p_ret[1].description = <<"P", "e", "e", "r", "i", "n", "g">>

\* the lines that follow the code-1011 line in hand, and how many of them
\* its block reads: the server time, the last reboot and the last
\* reconfiguration, after the host name if there is one
LinesAhead == SubSeq(s_lines, s_i + 2, Len(s_lines))
LinesExpected ==
    IF LinesAhead # <<>> /\ IsHostnameLine(LinesAhead[1]) THEN 4 ELSE 3
StatusCutShort ==
    /\ StatusInLoop
    /\ s_field_number = 1011
    /\ Len(LinesAhead) < LinesExpected
PeerCutShort ==
    /\ PeerInLoop
    /\ field_number = 1006
    /\ peer_summary # NoSummary
    /\ ~Blank(p_line)
    /\ \A k \in (p_i + 2)..Len(p_lines) : ~Blank(p_lines[k])
StatusWhole(d) ==
    "router_id" \in DOMAIN d =>
        {"last_reboot", "last_reconfiguration"} \subseteq DOMAIN d

\* C13: the status decoder and the peer decoder end on every reply, and a
\* reply that stops where a continuation line is expected (after a code-1011
\* line, or inside a code-1006 block that has no blank line yet) ends the
\* decode with an error, StopIteration when the line in hand is the last one
\* read: nothing is returned then, and a returned status is never one with a
\* router id and no reboot or reconfiguration time.
C13_CutShortEndsInError ==
    /\ <>(s_pc # "loop" /\ p_pc # "loop")
    /\ [](s_pc = "returned" => StatusWhole(s_ret))
    /\ [][/\ StatusCutShort =>
               /\ s_pc' = "raised"
               /\ s_exc' \in {"StopIteration", "IndexError", "ValueError"}
               /\ LinesAhead = <<>> => s_exc' = "StopIteration"
               /\ s_ret' = s_ret
          /\ PeerCutShort =>
               /\ p_pc' = "raised"
               /\ p_exc' = "StopIteration"
               /\ p_ret' = p_ret
               /\ peers' = peers]_vars
C13_Witness ==
    /\ s_pc = "raised"
    /\ s_exc = "StopIteration"
    /\ Len(s_lines) = 3
    /\ s_lines[1] = SRouter
    /\ "last_reboot" \in DOMAIN s_data
    /\ s_ret = EmptyDict

\* the codes that end a reply
TerminalCodes == error_fields \cup success_fields
\* a text holds a newline and, right after it, the four digits of a code
\* that ends a reply
HoldsTerminal(text) ==
    \E q \in DOMAIN text : \E code \in TerminalCodes :
        /\ text[q] = "\n"
        /\ Slice(text, q, q + 4) = CodeChars(code)
\* a whole line that begins with such a code has come in, after another line
TerminalLineArrived(text) ==
    \E q \in DOMAIN text : \E code \in TerminalCodes :
        /\ text[q] = "\n"
        /\ Slice(text, q, q + 4) = CodeChars(code)
        /\ \E e \in (q + 5)..Len(text) : text[e] = "\n"

\* C14: however the reply is cut into reads, _socket_query asks for no
\* further read once what it has received holds a whole line that begins
\* with a terminal reply code.
C14_NoReadAfterTerminalLine ==
    sq_pc = "recv" => ~TerminalLineArrived(Joined(sq_data))

\* C15: what _socket_query returns is all the chunks it has read, joined, and
\* holds a newline followed by the four digits of a terminal reply code; an
\* empty read ends the call with ValueError and nothing is returned.
C15_ReturnsWholeReplyOrRaises ==
    /\ [](/\ sq_pc = "returned" =>
               /\ sq_ret = Joined(sq_data)
               /\ sq_ret = SubSeq(stream, 1, sent)
               /\ HoldsTerminal(sq_ret)
          /\ sq_pc = "raised" => (sq_exc = "ValueError" /\ sq_ret = <<>>))
    /\ [][/\ (sq_pc = "recv" /\ sq_pc' # "recv" /\ sq_data' = sq_data) =>
               sq_pc' = "raised"
          /\ sq_pc' = "returned" => Len(sq_data') = Len(sq_data) + 1]_vars
C15_Witness ==
    /\ sq_pc = "returned"
    /\ stream = R_Ok
    /\ Len(sq_data) = 3
    /\ sq_ret = R_Ok

\* C16 as stated: no step of a decoder call changes a field of the instance.
C16_DecodersLeaveInstance == [][config_file' = config_file]_vars

\* C16, amended: the one field a decoder changes is config_file, and only
\* _parse_configure does, at a code-2 line while no path is known, to the
\* fourth word of that line; a known path is never changed, and the call
\* fails on a code-2 line that has no fourth word (IndexError) only while no
\* path is known.
C16_OnlyConfigureLearnsPath ==
    /\ [](cfg_exc = "IndexError" => config_file \in {None, ""})
    /\ [][/\ config_file \notin {None, ""} => config_file' = config_file
          /\ config_file' # config_file =>
               /\ cfg_pc = "scan"
               /\ CfgInLoop
               /\ fieldno = 2
               /\ Len(SplitSpace(cfg_line)) >= 4
               /\ config_file' = SplitSpace(cfg_line)[4]
               /\ UNCHANGED <<routeVars, statusVars, peerVars>>]_vars
C16_Witness ==
    /\ cfg_pc = "returned"
    /\ cfg_i = 1
    /\ cfg_lines[1] = CReading
    /\ config_file = "/etc/bird.conf"

\* ------------------------------------------------------------------------
\* the route counters and the route change rows of a peer record

StartsWith(w, label) == Slice(w, 0, Len(label)) = label

\* the detail block of the reply: from its code-1006 line up to the first
\* blank line after it
DetailBlock ==
    LET first == CHOOSE k \in DOMAIN p_lines :
                     /\ p_lines[k].digits = 1006
                     /\ \A j \in 1..(k - 1) : p_lines[j].digits # 1006
        last == CHOOSE k \in first..Len(p_lines) :
                     /\ Blank(p_lines[k + 1])
                     /\ \A j \in (first + 1)..k : ~Blank(p_lines[j])
    IN  SubSeq(p_lines, first, last)

IsRoutesLine(l) ==
    l.words # <<>> /\ Lower(l.words[1]) = <<"r", "o", "u", "t", "e", "s", ":">>

\* the count a "Routes:" line gives for a label: the number written before
\* the label, 0 if the line does not have the label
GivenOnLine(l, label) ==
    LET at == {k \in 2..(Len(l.words) - 1) : StartsWith(l.words[k + 1], label)}
    IN  IF at = {} THEN 0
        ELSE Decimal(l.words[CHOOSE k \in at : \A j \in at : k <= j])

\* the count the block gives for a label: that of its last "Routes:" line,
\* 0 if it has no such line
Given(block, label) ==
    LET at == {k \in DOMAIN block : IsRoutesLine(block[k])}
    IN  IF at = {} THEN 0
        ELSE GivenOnLine(block[CHOOSE k \in at : \A j \in at : k >= j], label)

RouteCounters ==
    {<<"routes_imported", <<"i", "m", "p", "o", "r", "t", "e", "d">>>>,
     <<"routes_exported", <<"e", "x", "p", "o", "r", "t", "e", "d">>>>,
     <<"routes_filtered", <<"f", "i", "l", "t", "e", "r", "e", "d">>>>,
     <<"routes_preferred", <<"p", "r", "e", "f", "e", "r", "r", "e", "d">>>>}

\* C21: every peer record made from a detail block has the four counters
\* routes_imported, routes_exported, routes_filtered and routes_preferred,
\* each with the count the reply gives for it and 0 when the reply gives
\* none, also when the block has no "Routes:" line.
C21_RecordHasFourCounters ==
    p_pc = "returned" =>
        \A k \in DOMAIN p_ret : \A rc \in RouteCounters :
            /\ rc[1] \in DOMAIN p_ret[k]
            /\ p_ret[k][rc[1]] = Given(DetailBlock, rc[2])

\* the four rows of the route change stats: the two words of the name as
\* they are written, and the name in the keys
ChangeRows ==
    {<<<<"i", "m", "p", "o", "r", "t">>, <<"u", "p", "d", "a", "t", "e", "s", ":">>, "import_updates">>,
     <<<<"i", "m", "p", "o", "r", "t">>, <<"w", "i", "t", "h", "d", "r", "a", "w", "s", ":">>, "import_withdraws">>,
     <<<<"e", "x", "p", "o", "r", "t">>, <<"u", "p", "d", "a", "t", "e", "s", ":">>, "export_updates">>,
     <<<<"e", "x", "p", "o", "r", "t">>, <<"w", "i", "t", "h", "d", "r", "a", "w", "s", ":">>, "export_withdraws">>}

\* the lines of the block that are the given row
RowLines(block, row) ==
    {k \in DOMAIN block :
        /\ Len(block[k].words) >= 2
        /\ Lower(block[k].words[1]) = row[1]
        /\ Lower(block[k].words[2]) = row[2]}

\* the cells of a row line: what follows its name
Cells(l) == SubSeq(l.words, 3, Len(l.words))

NoValue == <<"-", "-", "-">>

\* C22: for a route change row with its five cells in the order received,
\* rejected, filtered, ignored, accepted, the record has the key
\* <row>_<column> with the integer of the cell exactly for the cells that
\* are not "---", and no such key for the cells that are "---".  A record is
\* only returned when every row of its block has five cells; a row that is
\* not in the block leaves no key; when a block repeats a row, a column has
\* the value of the last line of the row that gives one.
C22_RowKeysForGivenCells ==
    p_pc = "returned" =>
        \A r \in DOMAIN p_ret : \A row \in ChangeRows :
            /\ \A k \in RowLines(DetailBlock, row) :
                   Len(Cells(DetailBlock[k])) = 5
            /\ \A j \in 1..5 :
                LET key == row[3] \o "_" \o route_stats_columns[j]
                    given == {k \in RowLines(DetailBlock, row) :
                                 Cells(DetailBlock[k])[j] # NoValue}
                    last == CHOOSE k \in given : \A g \in given : k >= g
                IN  IF given = {}
                    THEN key \notin DOMAIN p_ret[r]
                    ELSE /\ key \in DOMAIN p_ret[r]
                         /\ p_ret[r][key] = Decimal(Cells(DetailBlock[last])[j])
\* "Import updates: 50 3 --- 0 0" gives four keys and no filtered key
C22_Witness ==
    /\ p_pc = "returned"
    /\ p_lines = <<PBgp, PDescription, PImportUpdates, BlankLine>>
    /\ Len(p_ret) = 1
    /\ p_ret[1].import_updates_received = 50
    /\ p_ret[1].import_updates_rejected = 3
    /\ p_ret[1].import_updates_ignored = 0
    /\ p_ret[1].import_updates_accepted = 0
    /\ "import_updates_filtered" \notin DOMAIN p_ret[1]

\* ------------------------------------------------------------------------
\* queries

\* the name as supplied, without its characters that are not alphanumeric
AlphanumericOnly(name) ==
    IF name.none THEN name ELSE PyStr(SelectSeq(name.text, IsAlnum))

\* the query of the operation called when it embeds the given name
QueryWith(name) ==
    CASE q_op = "get_routes" ->
             routes_query(q_table, q_prefix, name, q_full)
      [] q_op = "get_peer_prefixes_announced" -> announced_query(name.text)
      [] q_op = "get_peer_prefixes_exported" -> exported_query(name.text)
      [] q_op = "get_peer_prefixes_accepted" -> accepted_query(name.text)
      [] q_op = "get_prefix_info" -> prefix_info_query(q_prefix, name)
      [] q_op = "get_peer_status" ->
             IF Truthy(q_peer) THEN peer_status_query(name.text)
             ELSE all_peers_query

\* C23: in every query a public operation hands to the transport, the peer
\* name the caller supplied is embedded with its alphanumeric characters
\* only: every other character of it has been removed.
C23_EmbeddedNameAlphanumeric ==
    q_pc = "sent" => query = QueryWith(AlphanumericOnly(q_peer))

\* ------------------------------------------------------------------------
\* the block of a code-1011 line

\* a code-1011 line is in hand and its block is read to its end
StatusBlockRead ==
    /\ StatusInLoop
    /\ s_field_number = 1011
    /\ s_pc' = "loop"
\* 1 if the line after the code-1011 line in hand is a host name line
HostnameGiven == LinesExpected - 3
\* the value of a "Last ... on <date>" line of the block
DateOn(l) == parse_router_status_line(Split(TextOf(l), " "), TRUE).value
\* the keys a block stores
BlockKeys ==
    {"router_id", "last_reboot", "last_reconfiguration"}
        \cup (IF HostnameGiven = 1 THEN {"hostname"} ELSE {})
\* no code-1011 line of the reply has a host name line right after it
NoHostnameLine ==
    \A k \in 1..(Len(s_lines) - 1) :
        extract_field_number(Stripped(s_lines[k])).number = 1011 =>
            ~IsHostnameLine(s_lines[k + 1])

\* C24: after a code-1011 line the decoder takes the next lines in order: a
\* line that starts with "Hostname is" gives hostname and one more line is
\* taken; the line then in hand is the server time and gives nothing; the
\* next line gives last_reboot and the one after it last_reconfiguration.
\* Without a host name line the block stores no hostname and the two dates
\* come from the 2nd and 3rd line after the code-1011 line.  The main loop
\* goes on after the last line of the block: the lines of the block are not
\* classified again and change nothing else in the record.
C24_BlockLinesInOrder ==
    /\ [][StatusBlockRead =>
             /\ s_i' = s_i + 1 + HostnameGiven + 3
             /\ HostnameGiven = 1 =>
                    s_data'.hostname =
                        SecondOfSplitIs(TextOf(LinesAhead[1])).value
             /\ s_data'.last_reboot = DateOn(LinesAhead[HostnameGiven + 2])
             /\ s_data'.last_reconfiguration =
                    DateOn(LinesAhead[HostnameGiven + 3])
             /\ DOMAIN s_data' = DOMAIN s_data \cup BlockKeys
             /\ \A key \in DOMAIN s_data \ BlockKeys :
                    s_data'[key] = s_data[key]]_vars
    /\ []((s_pc = "returned" /\ NoHostnameLine) =>
              "hostname" \notin DOMAIN s_ret)
\* the whole reply of a daemon that names its host, and the same reply
\* decoded to its end
C24_Witness ==
    /\ s_pc = "returned"
    /\ s_lines = StatusReply
    /\ s_ret.hostname = <<"b", "i", "r", "d", "2">>
    /\ s_ret.last_reboot = DateOn(SReboot)
    /\ s_ret.last_reconfiguration = DateOn(SReconfiguration)
    /\ s_ret.last_reboot # s_ret.last_reconfiguration

\* ------------------------------------------------------------------------
\* attribute lines of a route

\* line k is an attribute line: a code-1012 line, or an uncoded line of the
\* same form among those that follow one
AttributeLine(k) ==
    /\ lines[k].kind = "detail"
    /\ \E j \in 1..k :
          /\ lines[j].digits = 1012
          /\ \A i \in (j + 1)..k :
                lines[i].digits = NoneNum /\ lines[i].kind = "detail"

\* line s is the summary line of the route that line k belongs to: between
\* them are only the via line of a dialect-B summary, the code-1008 line and
\* attribute lines
SummaryOf(s, k) ==
    /\ s < k
    /\ lines[s].digits = 1007
    /\ lines[s].kind = "summary"
    /\ \A i \in (s + 1)..(k - 1) :
          \/ i = s + 1 /\ lines[i].kind = "hop" /\ lines[s].hop = "unicast"
          \/ lines[i].digits = 1008 /\ lines[i].kind = "type"
          \/ AttributeLine(i)

\* the record was begun by the summary line
BegunBy(r, l) ==
    /\ {"prefix", "source", "time"} \subseteq DOMAIN r
    /\ r.prefix = l.prefix
    /\ r.source = l.source
    /\ r.time = l.time

\* the record holds what the attribute line gives
HoldsAttribute(r, l) ==
    /\ l.words[1] \in DOMAIN r
    /\ l.words[2] \in DOMAIN r[l.words[1]]
    /\ r[l.words[1]][l.words[2]] = DetailValue(l.words[2], l.words[3])

\* the reply is whole: it ends with its code-0 line and nothing else ends it
WholeReply ==
    /\ lines # <<>>
    /\ lines[Len(lines)] = LEnd
    /\ \A k \in 1..(Len(lines) - 1) : lines[k].digits \notin {0, 8001}

\* C25: in detail mode every attribute line of a route (its code-1012 line
\* and the uncoded lines that follow it) is stored as proto -> attribute ->
\* value on the record begun by the summary line of that route, and the
\* attributes of one proto are all kept.
C25_AttributesOnOwnRecord ==
    (pc = "returned" /\ ~short /\ WholeReply) =>
        \A k \in DOMAIN lines : \A s \in DOMAIN lines :
            (AttributeLine(k) /\ SummaryOf(s, k)) =>
                \E i \in DOMAIN result :
                    /\ BegunBy(result[i], lines[s])
                    /\ HoldsAttribute(result[i], lines[k])

\* ------------------------------------------------------------------------
\* the remembered path over the calls on one instance

PathKnown == config_file \notin {None, ""}

\* C26: over any sequence of check_config and configure calls on one
\* instance, config_file is assigned only at a code-2 line read while no
\* path is known, and then to the 4th space-separated token of that line;
\* such a line with a 4th token always assigns it; once a path is known no
\* step of any later reply, and no new call, changes it.
C26_PathLearnedOnce ==
    [][/\ PathKnown => config_file' = config_file
       /\ config_file' # config_file =>
            /\ ~PathKnown
            /\ CfgInLoop
            /\ extract_field_number(cfg_lines[cfg_i + 1]).number = 2
       /\ (/\ ~PathKnown
           /\ CfgInLoop
           /\ extract_field_number(cfg_lines[cfg_i + 1]).number = 2
           /\ cfg_pc' = "scan") =>
            config_file' = extract_field_number(cfg_lines[cfg_i + 1]).line.words[4]]_vars
\* the path of an earlier reply is still the one remembered after a reply
\* that names another file
C26_Witness ==
    /\ config_file = "/etc/bird.conf"
    /\ cfg_lines = <<CReadingOther, COk>>
    /\ call_pc = "returned"

\* a month-day input: a month name followed by a day of the month
MonthDay(v) == strptime_bd(v).raised = None

\* the instant a returned text '%m/%d/%Y %H:%M:%S' names, as
\* <<year, month, day, hour, minute, second>>
InstantOf(text) ==
    LET date == Split(Split(text, " ")[1], "/")
        time == Split(Split(text, " ")[2], ":")
    IN  <<Decimal(date[3]), Decimal(date[1]), Decimal(date[2]),
          Decimal(time[1]), Decimal(time[2]), Decimal(time[3])>>
InstantOfClock(n) == <<n.year, n.month, n.day, n.hour, n.minute, n.second>>

\* instant a is not later than instant b
RECURSIVE NotLater(_, _)
NotLater(a, b) ==
    IF a = <<>> THEN TRUE
    ELSE IF Head(a) # Head(b) THEN Head(a) < Head(b)
    ELSE NotLater(Tail(a), Tail(b))

\* C27: whenever the resolver returns for a bare time (HH:MM, HH:MM:SS) or
\* for a month-day input (Jun13), the instant it returns is not later than
\* now.
C27_NeverLaterThanNow ==
    (dt_pc = "returned" /\ (BareTime(dt_arg) \/ MonthDay(dt_arg))) =>
        NotLater(InstantOf(dt_ret), InstantOfClock(now))

\* a bare time after now's time of day is resolved on the day before
C27_Witness ==
    /\ dt_pc = "returned"
    /\ dt_arg = T_HourMinute
    /\ now = Clock(2012, 6, 13, 12, 0, 10)
    /\ dt_ret = strftime(Clock(2012, 6, 12, 13, 30, 0))
    /\ NotLater(InstantOf(dt_ret), InstantOfClock(now))

====
